---- MODULE Spec2Model ----
(***************************************************************************)
(* Model of the PAD encoding core of ODR-PadEnc / StreamDAB:               *)
(*   - SmartDLSQueue (src/src/smart_dls.{h,cpp}): the caption queue, its   *)
(*     dedup map, the expiry sweep and GetNextMessage;                     *)
(*   - ContentScheduler (src/src/content_manager.{h,cpp}): the scheduled   *)
(*     table, the emergency override and the per-second tick.              *)
(* Time is counted in clock ticks; TicksPerHour ticks make one hour, so    *)
(* std::chrono::hours{1} is TicksPerHour and seconds{3600} is the same.    *)
(* A time_point of 0 is the epoch, which the code reads as "not set".      *)
(***************************************************************************)
EXTENDS Integers, Sequences, FiniteSets, TLC

\* ------------------------------------------------------------------ bounds
TicksPerHour == 2
Horizon == 2
MaxMessages == 2
MaxScalings == 1
MaxItems == 2
MaxDuration == 2
MaxImages == 2         \* config_.max_images
MaxCallers == 2        \* threads calling GetNextImage
MaxUsage == 2          \* cap on usage_count

StartTime == TicksPerHour + 1
EndTime == StartTime + Horizon

\* ------------------------------------------------------- program constants
\* enum class MessagePriority
EMERGENCY == 0
HIGH == 1
NORMAL == 2
LOW == 3
BACKGROUND == 4

\* IsDuplicate's default dedup_window, std::chrono::seconds{3600}
DedupWindow == 1 * TicksPerHour
\* AddMessage's default expiration, std::chrono::hours{24}
DefaultExpiry == 24 * TicksPerHour

\* DLSMessage::importance_score is a double; the model counts it in
\* thousandths, and keeps the number of in-place multiplications by 0.8
\* (smart_dls.cpp:158) beside the submitted value, so that
\*   importance_score = importance / 1000 * 0.8^scalings     exactly.
ImportanceUnit == 1000

NoMsg == 0

VARIABLES
    now,                \* std::chrono::system_clock::now()
    msgs,               \* the DLSMessage objects the queue's shared_ptrs point to
    priority_queue_,    \* SmartDLSQueue::priority_queue_ (ids into msgs)
    message_index_,     \* SmartDLSQueue::message_index_  (source_id -> id)
    content_hashes_,    \* SmartDLSQueue::content_hashes_ (hash -> time_point)
    total_messages_,
    expired_messages_,
    ret,                \* the last call and what it returned
    seen_at,            \* history: hash -> time of its latest accepted AddMessage
    items,              \* the ContentItem objects the scheduler's shared_ptrs point to
    scheduled_content_, \* ContentScheduler::scheduled_content_ (ids into items)
    current_mot_content_,
    current_dls_content_,
    emergency_override_,
    emergency_content_,
    emergency_start_,
    emergency_duration_,
    scheduler_running_,
    loop_pc,            \* whether scheduler_thread_ runs SchedulingLoop
    wake_at,            \* when its sleep_for(1 s) ends
    sched_ret,          \* the scheduler's last call and what it returned
    emergency_mode_,    \* StreamDABAPIService::emergency_mode_
    emergency_message_,
    emergency_start_time_,
    sync_pc,            \* where a SynchronizeContent call is
    mot_content,        \* its local mot_content
    dls_content,        \* its local dls_content
    last_sync_,         \* ContentCoordinator::last_sync_
    published_pairs,    \* history: every <<MOT, DLS>> pair that was current
    config_,            \* EnhancedMOTProcessor::config_
    image_cache_,       \* EnhancedMOTProcessor::image_cache_
    hash_index_,        \* EnhancedMOTProcessor::hash_index_ (hash -> position, from 1)
    cache_mutex_,       \* owner of EnhancedMOTProcessor::cache_mutex_, 0 = free
    current_index,      \* GetNextImage's static current_index
    mot_pc,             \* where each caller of GetNextImage is
    mot_ret,            \* what the last carousel call returned; call tells two
                        \* successive calls of the same outcome apart
    add_pc,             \* where each thread calling AddImage is
    add_image_data,     \* its local image_data
    allowed_directories_,  \* SecurePathValidator::allowed_directories_
    strict_mode_,       \* SecurePathValidator::strict_mode_
    path_ret,           \* what the last ValidatePath call returned
    thai_ret,           \* the last conversion calls and what each returned
    call_ret,           \* the last call of a function without state, its arguments and result
    processing_active_,    \* EnhancedMOTProcessor::processing_active_
    background_processor_  \* the std::thread object and the loop threads behind it

queue_vars == <<msgs, priority_queue_, message_index_, content_hashes_,
                total_messages_, expired_messages_, ret, seen_at>>

sched_vars == <<items, scheduled_content_, current_mot_content_, current_dls_content_,
                emergency_override_, emergency_content_, emergency_start_,
                emergency_duration_, scheduler_running_, loop_pc, wake_at, sched_ret>>

api_vars == <<emergency_mode_, emergency_message_, emergency_start_time_>>

sync_vars == <<sync_pc, mot_content, dls_content, last_sync_, published_pairs>>

mot_vars == <<config_, image_cache_, hash_index_, cache_mutex_, current_index,
              mot_pc, mot_ret, add_pc, add_image_data>>

bg_vars == <<processing_active_, background_processor_>>

util_vars == <<allowed_directories_, strict_mode_, path_ret, thai_ret, call_ret,
               bg_vars>>

vars == <<now, queue_vars, sched_vars, api_vars, sync_vars, mot_vars, util_vars>>

\* ------------------------------------------------------------- SmartDLSQueue

\* MD5 hex digest of the text: distinct texts get distinct digests.
GenerateContentHash(text) == <<"md5", text>>

IsDuplicate(content_hash) ==
    /\ content_hash \in DOMAIN content_hashes_
    /\ (now - content_hashes_[content_hash]) < DedupWindow

\* The DLSMessage as AddMessage leaves it.
Stored(m) ==
    LET created == IF m.created_at = 0 THEN now ELSE m.created_at
    IN [m EXCEPT !.content_hash = GenerateContentHash(m.text),
                 !.created_at = created,
                 !.expires_at = IF m.expires_at = 0
                                THEN created + DefaultExpiry
                                ELSE m.expires_at]

MapPut(f, k, v) == [x \in DOMAIN f \cup {k} |-> IF x = k THEN v ELSE f[x]]

\* SmartDLSQueue::AddMessage: what it does to the queue.
AddMessageBody(m) ==
    /\ Len(msgs) < MaxMessages
    /\ IF m.text = "" \/ IsDuplicate(GenerateContentHash(m.text))
       THEN /\ ret' = [op |-> "AddMessage", msg |-> NoMsg]
            /\ UNCHANGED <<msgs, priority_queue_, message_index_, content_hashes_,
                           total_messages_, expired_messages_, seen_at>>
       ELSE LET id == Len(msgs) + 1
                s == Stored(m)
            IN /\ msgs' = Append(msgs, s)
               /\ priority_queue_' = priority_queue_ \cup {id}
               /\ message_index_' = MapPut(message_index_, s.source_id, id)
               /\ content_hashes_' = MapPut(content_hashes_, s.content_hash, s.created_at)
               /\ total_messages_' = total_messages_ + 1
               /\ seen_at' = MapPut(seen_at, s.content_hash, now)
               /\ ret' = [op |-> "AddMessage", msg |-> id]
               /\ UNCHANGED expired_messages_

AddMessage(m) ==
    /\ AddMessageBody(m)
    /\ UNCHANGED <<now, util_vars, sched_vars, api_vars, sync_vars, mot_vars>>

\* CleanupExpiredMessages: the entries of message_index_ that are erased.
ExpiredKeys == {k \in DOMAIN message_index_ : msgs[message_index_[k]].expires_at < now}

IndexAfterCleanup == [k \in DOMAIN message_index_ \ ExpiredKeys |-> message_index_[k]]

HashesAfterCleanup ==
    LET gone == {msgs[message_index_[k]].content_hash : k \in ExpiredKeys}
    IN [h \in DOMAIN content_hashes_ \ gone |-> content_hashes_[h]]

\* The checks of GetNextMessage's loop body that clear meets_criteria.
InPriorityRange(m, c) ==
    ~(m.priority < c.min_priority \/ m.priority > c.max_priority)

WithinMaxAge(m, c) == ~((now - m.created_at) > c.max_age)

SourceAllowed(m, c) ==
    /\ (c.allowed_sources # {} => m.source \in c.allowed_sources)
    /\ (c.blocked_sources # {} => m.source \notin c.blocked_sources)

\* A variant that lets a caption through a second time.
RepeatAllowedTwice(m, c) == ~(~c.allow_repeats /\ m.send_count > 1)

RepeatAllowed(m, c) == ~(~c.allow_repeats /\ m.send_count > 0)

UnderRepeatCount(m, c) == ~(m.send_count >= c.max_repeat_count)

\* A variant that throttles only from the second repeat on.
RepeatIntervalElapsedFromSecond(m, c) ==
    m.send_count > 1 => ~((now - m.last_sent) < c.min_repeat_interval)

RepeatIntervalElapsed(m, c) ==
    m.send_count > 0 => ~((now - m.last_sent) < c.min_repeat_interval)

TextFits(m, c) == ~(Len(m.text) > c.max_text_length)

\* A variant that lets a message at its limit through once more.
UnderMaxSendsInclusive(m) == ~(m.max_sends > 0 /\ m.send_count > m.max_sends)

UnderMaxSends(m) == ~(m.max_sends > 0 /\ m.send_count >= m.max_sends)

MeetsCriteria(m, c) ==
    /\ InPriorityRange(m, c)
    /\ WithinMaxAge(m, c)
    /\ SourceAllowed(m, c)
    /\ RepeatAllowed(m, c)
    /\ UnderRepeatCount(m, c)
    /\ RepeatIntervalElapsed(m, c)
    /\ TextFits(m, c)
    /\ UnderMaxSends(m)

\* importance_score on a common integer scale: importance / 1000 * 0.8^scalings,
\* times 1000 * 5^MaxScalings.
RECURSIVE Pow(_, _)
Pow(b, e) == IF e = 0 THEN 1 ELSE b * Pow(b, e - 1)

ImportanceScore(m) ==
    m.importance * Pow(4, m.scalings) * Pow(5, MaxScalings - m.scalings)

\* |a - b| > 0.001 on that scale
ImportanceDiffers(a, b) ==
    LET d == ImportanceScore(a) - ImportanceScore(b)
        eps == (ImportanceUnit \div 1000) * Pow(5, MaxScalings)
    IN (IF d < 0 THEN -d ELSE d) > eps

\* A variant that orders by importance and age only.
MessageComparatorNoPriority(a, b) ==
    IF ImportanceDiffers(a, b) THEN ImportanceScore(a) < ImportanceScore(b)
    ELSE a.created_at < b.created_at

\* MessageComparator(a, b): a orders before b, so b is nearer the top.
MessageComparator(a, b) ==
    IF a.priority # b.priority THEN a.priority > b.priority
    ELSE IF ImportanceDiffers(a, b) THEN ImportanceScore(a) < ImportanceScore(b)
    ELSE a.created_at < b.created_at

\* The loop's side effect on a queued message (prefer_thai_content).
AfterScan(m, c) ==
    IF c.prefer_thai_content /\ ~m.is_thai_content
    THEN [m EXCEPT !.scalings = @ + 1]
    ELSE m

\* exp(-age_hours / 24.0), in 1/10000, for the ages the clock can reach.
RecencyTable == <<10000, 9592, 9200, 8825, 8465, 8119, 7788, 7470>>

Recency(age_hours) ==
    IF age_hours + 1 <= Len(RecencyTable) THEN RecencyTable[age_hours + 1]
    ELSE RecencyTable[Len(RecencyTable)]

\* ContextAwareSelector::DefaultScoringFunction, times 600000 * 5^MaxScalings.
DefaultScoringFunction(m) ==
    LET age_hours == (now - m.created_at) \div TicksPerHour
        K == Pow(5, MaxScalings)
    IN (4 - m.priority) * 60000 * K
       + ImportanceScore(m) * 180
       + Recency(age_hours) * 12 * K
       + (120000 * K) \div (2 + m.send_count)

\* Whether the heap still orders the queued messages by MessageComparator: the
\* in-place change of importance_score does not re-heapify, and after it only the
\* order by priority (which never changes) is kept by push and pop.
HeapInOrder == \A i \in priority_queue_ : msgs[i].scalings = 0

\* candidates[0]: the ids GetNextMessage may select, given the messages as the
\* loop left them.
FirstCandidates(scanned, c) ==
    LET cand == {i \in priority_queue_ : MeetsCriteria(msgs[i], c)}
    IN IF c.scoring_function = "default"
       THEN {i \in cand : \A j \in cand :
                DefaultScoringFunction(scanned[j]) <= DefaultScoringFunction(scanned[i])}
       ELSE IF HeapInOrder
       THEN {i \in cand : \A j \in cand : ~MessageComparator(msgs[i], msgs[j])}
       ELSE {i \in cand : \A j \in cand : msgs[j].priority >= msgs[i].priority}

\* GetNextMessage(criteria): what it does to the queue.
GetNextMessageBody(c) ==
    LET scanned == [i \in DOMAIN msgs |->
                      IF i \in priority_queue_ THEN AfterScan(msgs[i], c) ELSE msgs[i]]
        first == FirstCandidates(scanned, c)
    IN /\ \A i \in DOMAIN scanned : scanned[i].scalings <= MaxScalings
       /\ message_index_' = IndexAfterCleanup
       /\ content_hashes_' = HashesAfterCleanup
       /\ expired_messages_' = expired_messages_ + Cardinality(ExpiredKeys)
       /\ IF priority_queue_ = {}
          THEN /\ ret' = [op |-> "GetNextMessage", msg |-> NoMsg]
               /\ UNCHANGED msgs
          ELSE IF first = {}
          THEN /\ ret' = [op |-> "GetNextMessage", msg |-> NoMsg]
               /\ msgs' = scanned
          ELSE \E selected \in first :
               /\ msgs' = [scanned EXCEPT ![selected].last_sent = now,
                                          ![selected].send_count = @ + 1]
               /\ ret' = [op |-> "GetNextMessage", msg |-> selected]
       /\ UNCHANGED <<priority_queue_, total_messages_, seen_at>>

GetNextMessage(c) ==
    /\ GetNextMessageBody(c)
    /\ UNCHANGED <<now, util_vars, sched_vars, api_vars, sync_vars, mot_vars>>

\* The system clock moves on by one tick.
AdvanceTime ==
    /\ now < EndTime
    /\ now' = now + 1
    /\ ret' = [op |-> "AdvanceTime", msg |-> NoMsg]
    /\ sched_ret' = [op |-> "AdvanceTime", item |-> NoMsg]
    /\ UNCHANGED <<msgs, priority_queue_, message_index_, content_hashes_,
                   total_messages_, expired_messages_, seen_at>>
    /\ UNCHANGED <<items, scheduled_content_, current_mot_content_,
                   current_dls_content_, emergency_override_, emergency_content_,
                   emergency_start_, emergency_duration_, scheduler_running_,
                   loop_pc, wake_at, api_vars, sync_vars, mot_vars, util_vars>>

\* ---------------------------------------------------------- ContentScheduler
\* In the scheduler's specification a clock tick is the loop's period, one second.

\* enum class SchedulePriority has the ordinals of MessagePriority
\* (EMERGENCY = 0 .. BACKGROUND = 4; URGENT = 1 is written HIGH here).

\* std::chrono::minutes counted in ticks of one second
TicksPerMinute == 60

Minutes(d) == IF d >= 0 THEN d \div TicksPerMinute ELSE -((-d) \div TicksPerMinute)

ShouldScheduleContent(item) ==
    /\ ~(now > item.end_time)
    /\ ~(now < item.start_time)
    /\ ~(item.max_repeats > 0 /\ item.current_repeats >= item.max_repeats)

\* CalculateSchedulingScore, in thousandths.
CalculateSchedulingScore(item) ==
    LET time_in_window == Minutes(now - item.start_time)
        window_duration == Minutes(item.end_time - item.start_time)
        time_factor == IF window_duration > 0
                       THEN (1000 * (window_duration - time_in_window)) \div window_duration
                       ELSE 0
    IN (4 - item.priority) * 400
       + (IF time_factor > 0 THEN (time_factor * 3) \div 10 ELSE 0)
       + 2000 \div (10 + item.schedule_count)
       + (IF item.type = "MOT_SLIDESHOW" /\ item.quality >= 0
          THEN item.quality \div 10 ELSE 0)

\* candidates.front() after the sort: the ids SelectNext*Content may return
\* (NoMsg stands for nullptr).
SelectNext(types) ==
    LET cand == {i \in {scheduled_content_[k] : k \in DOMAIN scheduled_content_} :
                    /\ items[i].is_active
                    /\ items[i].type \in types
                    /\ ShouldScheduleContent(items[i])}
    IN IF cand = {} THEN {NoMsg}
       ELSE {i \in cand : \A j \in cand :
                CalculateSchedulingScore(items[j]) <= CalculateSchedulingScore(items[i])}

SelectNextMOTContent == SelectNext({"MOT_SLIDESHOW", "COMBINED"})

\* The metadata's "quality" is a string std::stod cannot parse.
QualityNotANumber == -2

\* std::stod throws std::invalid_argument out of the comparator of std::sort,
\* which runs once there are two candidates to compare.
SelectNextMOTContentThrows ==
    LET cand == {i \in {scheduled_content_[k] : k \in DOMAIN scheduled_content_} :
                    /\ items[i].is_active
                    /\ items[i].type \in {"MOT_SLIDESHOW", "COMBINED"}
                    /\ ShouldScheduleContent(items[i])}
    IN /\ Cardinality(cand) >= 2
       /\ \E i \in cand : /\ items[i].type = "MOT_SLIDESHOW"
                           /\ items[i].quality = QualityNotANumber

SelectNextDLSContent == SelectNext({"DLS_MESSAGE", "COMBINED"})

Start ==
    /\ ~scheduler_running_
    /\ loop_pc = "none"
    /\ scheduler_running_' = TRUE
    /\ loop_pc' = "loop"
    /\ sched_ret' = [op |-> "Start", item |-> NoMsg]
    /\ UNCHANGED <<now, util_vars, queue_vars, api_vars, sync_vars, mot_vars, items, scheduled_content_, current_mot_content_,
                   current_dls_content_, emergency_override_, emergency_content_,
                   emergency_start_, emergency_duration_, wake_at>>

\* A variant whose override still holds at the instant the duration is reached.
ProcessScheduledContentInclusive ==
    IF emergency_override_ /\ emergency_content_ # NoMsg
       /\ (now - emergency_start_) <= emergency_duration_
    THEN /\ current_mot_content_' = emergency_content_
         /\ current_dls_content_' = emergency_content_
         /\ UNCHANGED <<emergency_override_, emergency_content_>>
    ELSE /\ IF emergency_override_ /\ emergency_content_ # NoMsg
            THEN /\ emergency_override_' = FALSE
                 /\ emergency_content_' = NoMsg
            ELSE UNCHANGED <<emergency_override_, emergency_content_>>
         /\ current_mot_content_' \in SelectNextMOTContent
         /\ current_dls_content_' \in SelectNextDLSContent

\* ProcessScheduledContent: what it publishes and what it does to the override.
ProcessScheduledContent ==
    IF emergency_override_ /\ emergency_content_ # NoMsg
       /\ (now - emergency_start_) < emergency_duration_
    THEN /\ current_mot_content_' = emergency_content_
         /\ current_dls_content_' = emergency_content_
         /\ UNCHANGED <<emergency_override_, emergency_content_>>
    ELSE /\ IF emergency_override_ /\ emergency_content_ # NoMsg
            THEN /\ emergency_override_' = FALSE
                 /\ emergency_content_' = NoMsg
            ELSE UNCHANGED <<emergency_override_, emergency_content_>>
         /\ current_mot_content_' \in SelectNextMOTContent
         /\ current_dls_content_' \in SelectNextDLSContent

\* UpdateContentMetrics on the published pair: the items afterwards.
UpdateContentMetrics(mot, dls) ==
    [i \in DOMAIN items |->
       IF i \in {mot, dls}
       THEN [items[i] EXCEPT
               !.display_count = @ + (IF i = mot THEN 1 ELSE 0)
                                   + (IF i = dls THEN 1 ELSE 0),
               !.last_displayed = now]
       ELSE items[i]]

\* ProcessScheduledContent leaves by the exception of SelectNextMOTContent:
\* an expired override is already reset, neither slot is assigned.
ProcessScheduledContentThrows ==
    /\ ~(emergency_override_ /\ emergency_content_ # NoMsg
         /\ (now - emergency_start_) < emergency_duration_)
    /\ SelectNextMOTContentThrows

\* One iteration of SchedulingLoop: ProcessScheduledContent,
\* UpdateContentMetrics, sleep_for(1 s); the catch block is entered from
\* ProcessScheduledContent and skips the two statements after it.
SchedulingLoop ==
    /\ scheduler_running_
    /\ loop_pc = "loop"
    /\ now >= wake_at
    /\ IF ProcessScheduledContentThrows
       THEN /\ IF emergency_override_ /\ emergency_content_ # NoMsg
               THEN /\ emergency_override_' = FALSE
                    /\ emergency_content_' = NoMsg
               ELSE UNCHANGED <<emergency_override_, emergency_content_>>
            /\ sched_ret' = [op |-> "SchedulingLoopError", item |-> NoMsg]
            /\ UNCHANGED <<current_mot_content_, current_dls_content_, items,
                           wake_at, published_pairs>>
       ELSE /\ ProcessScheduledContent
            /\ items' = UpdateContentMetrics(current_mot_content_',
                                             current_dls_content_')
            /\ wake_at' = now + 1
            /\ sched_ret' = [op |-> "SchedulingLoop", item |-> NoMsg]
            /\ published_pairs' =
                  published_pairs
                     \cup {<<current_mot_content_', current_dls_content_'>>}
    /\ UNCHANGED <<now, util_vars, queue_vars, api_vars, mot_vars, sync_pc, mot_content, dls_content,
                   last_sync_, scheduled_content_, emergency_start_,
                   emergency_duration_, scheduler_running_, loop_pc>>

AddContent(item) ==
    /\ Len(items) < MaxItems
    /\ items' = Append(items, item)
    /\ scheduled_content_' = Append(scheduled_content_, Len(items) + 1)
    /\ sched_ret' = [op |-> "AddContent", item |-> NoMsg]
    /\ UNCHANGED <<now, util_vars, queue_vars, api_vars, sync_vars, mot_vars, current_mot_content_, current_dls_content_,
                   emergency_override_, emergency_content_, emergency_start_,
                   emergency_duration_, scheduler_running_, loop_pc, wake_at>>

\* RemoveContent(item_id): erases the first scheduled entry with that id; the
\* objects others still point to stay.
RemoveContent(item_id) ==
    LET at == {k \in DOMAIN scheduled_content_ : scheduled_content_[k] = item_id}
    IN /\ IF at = {}
          THEN /\ UNCHANGED scheduled_content_
               /\ sched_ret' = [op |-> "RemoveContent", item |-> NoMsg]
          ELSE LET k == CHOOSE x \in at : \A y \in at : x <= y
               IN /\ scheduled_content_' =
                        SubSeq(scheduled_content_, 1, k - 1)
                          \o SubSeq(scheduled_content_, k + 1, Len(scheduled_content_))
                  /\ sched_ret' = [op |-> "RemoveContent", item |-> item_id]
       /\ UNCHANGED <<now, util_vars, queue_vars, api_vars, sync_vars, mot_vars, items, current_mot_content_,
                      current_dls_content_, emergency_override_, emergency_content_,
                      emergency_start_, emergency_duration_, scheduler_running_,
                      loop_pc, wake_at>>

\* TriggerEmergency(emergency_item, duration) with a ContentItem the caller made.
TriggerEmergency(emergency_item, duration) ==
    /\ Len(items) < MaxItems
    /\ items' = Append(items, emergency_item)
    /\ emergency_override_' = TRUE
    /\ emergency_content_' = Len(items) + 1
    /\ emergency_start_' = now
    /\ emergency_duration_' = duration
    /\ sched_ret' = [op |-> "TriggerEmergency", item |-> NoMsg]
    /\ UNCHANGED <<now, util_vars, queue_vars, api_vars, sync_vars, mot_vars, scheduled_content_, current_mot_content_,
                   current_dls_content_, scheduler_running_, loop_pc, wake_at>>

ClearEmergency ==
    /\ emergency_override_' = FALSE
    /\ emergency_content_' = NoMsg
    /\ sched_ret' = [op |-> "ClearEmergency", item |-> NoMsg]
    /\ UNCHANGED <<now, util_vars, queue_vars, api_vars, sync_vars, mot_vars, items, scheduled_content_, current_mot_content_,
                   current_dls_content_, emergency_start_, emergency_duration_,
                   scheduler_running_, loop_pc, wake_at>>

GetCurrentMOTContent ==
    /\ sched_ret' = [op |-> "GetCurrentMOTContent", item |-> current_mot_content_]
    /\ UNCHANGED <<now, util_vars, queue_vars, api_vars, sync_vars, mot_vars, items, scheduled_content_, current_mot_content_,
                   current_dls_content_, emergency_override_, emergency_content_,
                   emergency_start_, emergency_duration_, scheduler_running_,
                   loop_pc, wake_at>>

GetCurrentDLSContent ==
    /\ sched_ret' = [op |-> "GetCurrentDLSContent", item |-> current_dls_content_]
    /\ UNCHANGED <<now, util_vars, queue_vars, api_vars, sync_vars, mot_vars, items, scheduled_content_, current_mot_content_,
                   current_dls_content_, emergency_override_, emergency_content_,
                   emergency_start_, emergency_duration_, scheduler_running_,
                   loop_pc, wake_at>>

\* IsEmergencyActive()
IsEmergencyActive == emergency_override_

\* ------------------------------------- SmartDLSProcessor, StreamDABAPIService

\* The DLSMessage SmartDLSProcessor::AddMessage builds: source_id hashes the
\* text with the time; the texts here have no Thai letters and are shorter
\* than max_message_length_, so no optimisation applies.
ProcessorMessage(text, priority, source) ==
    [text |-> text, priority |-> priority, source |-> source,
     created_at |-> 0, expires_at |-> 0, last_sent |-> 0,
     send_count |-> 0, max_sends |-> 0,
     importance |-> ImportanceUnit \div 2, scalings |-> 0,
     source_id |-> <<text, now>>, content_hash |-> <<>>,
     is_thai_content |-> FALSE]

\* SmartDLSProcessor::AddMessage(text, priority, source)
ProcessorAddMessage(text, priority, source) ==
    /\ AddMessageBody(ProcessorMessage(text, priority, source))
    /\ UNCHANGED <<now, util_vars, sched_vars, api_vars, sync_vars, mot_vars>>

\* StreamDABAPIService::TriggerEmergencyMode(message)
TriggerEmergencyMode(message) ==
    /\ emergency_mode_' = TRUE
    /\ emergency_message_' = message
    /\ emergency_start_time_' = now
    /\ AddMessageBody(ProcessorMessage(message, EMERGENCY, "EMERGENCY_SYSTEM"))
    /\ UNCHANGED <<now, util_vars, sched_vars, sync_vars, mot_vars>>

\* StreamDABAPIService::ClearEmergencyMode()
ClearEmergencyMode ==
    /\ emergency_mode_' = FALSE
    /\ emergency_message_' = ""
    /\ ret' = [op |-> "ClearEmergencyMode", msg |-> NoMsg]
    /\ UNCHANGED <<now, util_vars, msgs, priority_queue_, message_index_, content_hashes_,
                   total_messages_, expired_messages_, seen_at, sched_vars,
                   emergency_start_time_, sync_vars, mot_vars>>

\* ------------------------------------------------------- EnhancedMOTProcessor

Callers == 1..MaxCallers

\* CalculateImageHash over the transcoded bytes.
CalculateImageHash(data) == <<"md5", data>>

\* exp(-hours / 24.0) in thousandths, for the hours the clock reaches.
TimeFactor(hours) ==
    CASE hours = 0 -> 1000
      [] hours = 1 -> 959
      [] hours = 2 -> 920
      [] OTHER -> 882

\* CalculateFreshnessScore in thousandths: time_factor * 1 / (1 + 0.1 * usage_count).
CalculateFreshnessScore(image) ==
    (TimeFactor((now - image.last_used) \div TicksPerHour) * 10)
        \div (10 + image.usage_count)

\* SelectBestImages' score, times 10000.
SelectionScore(image) ==
    3 * image.sharpness + 2 * image.contrast + (1000 - image.brightness)
      + 4 * CalculateFreshnessScore(image)

\* SelectBestImages(1): the positions std::sort can leave first.
SelectBestImages ==
    {i \in DOMAIN image_cache_ :
        \A j \in DOMAIN image_cache_ :
            SelectionScore(image_cache_[j]) <= SelectionScore(image_cache_[i])}

IsDuplicateImage(hash) == hash \in DOMAIN hash_index_

\* RemoveOldImages' removal_score, times 10000.
RemovalScore(image) ==
    6 * image.freshness_score + 4 * (image.sharpness + image.contrast)

\* The pair <removal_score, index> of i sorts before that of j.
RemovedBefore(cache, i, j) ==
    \/ RemovalScore(cache[i]) < RemovalScore(cache[j])
    \/ RemovalScore(cache[i]) = RemovalScore(cache[j]) /\ i < j

RECURSIVE KeepImages(_, _, _)
KeepImages(cache, gone, i) ==
    IF i > Len(cache) THEN <<>>
    ELSE (IF i \in gone THEN <<>> ELSE <<cache[i]>>) \o KeepImages(cache, gone, i + 1)

\* RemoveOldImages on cache: the cache afterwards.
RemoveOldImages(cache) ==
    IF Len(cache) <= config_.max_images THEN cache
    ELSE LET to_remove == Len(cache) - config_.max_images
             gone == {i \in DOMAIN cache :
                        Cardinality({j \in DOMAIN cache : RemovedBefore(cache, j, i)})
                            < to_remove}
         IN KeepImages(cache, gone, 1)

\* The hash index rebuilt from the cache; a later slide overwrites an earlier
\* one of the same hash.
RebuildHashIndex(cache) ==
    [h \in {cache[i].hash : i \in DOMAIN cache} |->
        CHOOSE i \in DOMAIN cache :
            /\ cache[i].hash = h
            /\ \A j \in DOMAIN cache : cache[j].hash = h => j <= i]

\* The image files there are: two of the same bytes, a poor one, one that
\* cannot be read. size is the length of the transcoded bytes in KiB.
Images ==
    { [filename |-> "hi.jpg", size |-> 30, data |-> "x", readable |-> TRUE,
       sharpness |-> 700, contrast |-> 600, brightness |-> 500],
      [filename |-> "copy.jpg", size |-> 30, data |-> "x", readable |-> TRUE,
       sharpness |-> 700, contrast |-> 600, brightness |-> 500],
      [filename |-> "mid.jpg", size |-> 20, data |-> "y", readable |-> TRUE,
       sharpness |-> 500, contrast |-> 400, brightness |-> 500],
      [filename |-> "lo.jpg", size |-> 10, data |-> "z", readable |-> TRUE,
       sharpness |-> 200, contrast |-> 100, brightness |-> 500],
      [filename |-> "bad.jpg", size |-> 0, data |-> "", readable |-> FALSE,
       sharpness |-> 0, contrast |-> 0, brightness |-> 0] }

\* The carousel byte budget in KiB (SLSEncoder::MAXSLIDESIZE_SIMPLE).
CarouselMaxBytes == 50

\* Files whose transcoded output is at and over the budget.
LargeImages ==
    { [filename |-> "fit.jpg", size |-> CarouselMaxBytes, data |-> "f", readable |-> TRUE,
       sharpness |-> 600, contrast |-> 600, brightness |-> 500],
      [filename |-> "big.jpg", size |-> CarouselMaxBytes + 10, data |-> "b", readable |-> TRUE,
       sharpness |-> 600, contrast |-> 500, brightness |-> 500] }

\* What image.read(filepath) finds.
ImageAt(filepath) ==
    IF \E img \in Images \cup LargeImages : img.filename = filepath
    THEN CHOOSE img \in Images \cup LargeImages : img.filename = filepath
    ELSE [filename |-> filepath, size |-> 0, data |-> "", readable |-> FALSE,
          sharpness |-> 0, contrast |-> 0, brightness |-> 0]

\* The EnhancedImageData AddImage builds from the file img.
ImageData(img) ==
    [filename |-> img.filename, hash |-> CalculateImageHash(img.data),
     file_size |-> img.size,
     sharpness |-> img.sharpness, contrast |-> img.contrast,
     brightness |-> img.brightness, freshness_score |-> 1000,
     last_used |-> now, usage_count |-> 0]

NoImageData ==
    [filename |-> "", hash |-> <<>>, file_size |-> 0, sharpness |-> 0,
     contrast |-> 0, brightness |-> 0, freshness_score |-> 0, last_used |-> 0,
     usage_count |-> 0]

\* AddImage(filepath), img being what the file at filepath holds.
AddImageBody(img) ==
    LET hash == CalculateImageHash(img.data)
        image_data == ImageData(img)
        pushed == Append(image_cache_, image_data)
    IN /\ IF ~img.readable
          THEN /\ mot_ret' = [op |-> "AddImage", caller |-> 0, call |-> 1 - mot_ret.call,
                              image |-> img.filename, ok |-> FALSE]
               /\ UNCHANGED <<image_cache_, hash_index_>>
          ELSE IF config_.enable_duplicate_detection /\ IsDuplicateImage(hash)
          THEN /\ mot_ret' = [op |-> "AddImage", caller |-> 0, call |-> 1 - mot_ret.call,
                              image |-> img.filename, ok |-> FALSE]
               /\ UNCHANGED <<image_cache_, hash_index_>>
          ELSE /\ cache_mutex_ = 0
               /\ image_cache_' = RemoveOldImages(pushed)
               /\ hash_index_' =
                     IF Len(pushed) > config_.max_images
                     THEN RebuildHashIndex(RemoveOldImages(pushed))
                     ELSE MapPut(hash_index_, hash, Len(pushed))
               /\ mot_ret' = [op |-> "AddImage", caller |-> 0, call |-> 1 - mot_ret.call,
                              image |-> img.filename, ok |-> TRUE]
       /\ UNCHANGED <<config_, cache_mutex_, current_index, mot_pc, add_pc,
                      add_image_data>>

AddImage(img) ==
    /\ AddImageBody(img)
    /\ UNCHANGED <<now, util_vars, queue_vars, sched_vars, api_vars, sync_vars>>

\* GetImageCount()
GetImageCount == Len(image_cache_)

\* GetNextImage by caller t: lock_guard on cache_mutex_.
GetNextImageLock(t) ==
    /\ mot_pc[t] = "idle"
    /\ cache_mutex_ = 0
    /\ cache_mutex_' = t
    /\ mot_pc' = [mot_pc EXCEPT ![t] = "locked"]
    /\ UNCHANGED <<now, util_vars, queue_vars, sched_vars, api_vars, sync_vars, config_,
                   image_cache_, hash_index_, current_index, mot_ret, add_pc,
                   add_image_data>>

\* GetNextImage by caller t, with cache_mutex_ held. SelectBestImages locks
\* cache_mutex_ again on the thread that owns it, which is undefined for a
\* std::mutex: the thread blocks for good, or lock() throws std::system_error
\* and the call unwinds, or the lock is not enforced and the call goes on.
GetNextImageLocked(t) ==
    /\ mot_pc[t] = "locked"
    /\ IF image_cache_ = <<>>
       THEN /\ mot_ret' = [op |-> "GetNextImage", caller |-> t, call |-> 1 - mot_ret.call,
                           image |-> "nullptr", ok |-> FALSE]
            /\ cache_mutex_' = 0
            /\ mot_pc' = [mot_pc EXCEPT ![t] = "idle"]
            /\ UNCHANGED <<image_cache_, current_index>>
       ELSE IF config_.enable_smart_selection
       THEN \/ /\ mot_pc' = [mot_pc EXCEPT ![t] = "blocked"]
               /\ UNCHANGED <<image_cache_, cache_mutex_, current_index, mot_ret>>
            \/ /\ mot_ret' = [op |-> "GetNextImage", caller |-> t, call |-> 1 - mot_ret.call,
                              image |-> "system_error", ok |-> FALSE]
               /\ cache_mutex_' = 0
               /\ mot_pc' = [mot_pc EXCEPT ![t] = "idle"]
               /\ UNCHANGED <<image_cache_, current_index>>
            \/ \E index \in SelectBestImages :
                 LET used == [image_cache_[index] EXCEPT
                                !.last_used = now, !.usage_count = @ + 1]
                     image == [used EXCEPT
                                !.freshness_score = CalculateFreshnessScore(used)]
                 IN /\ image_cache_[index].usage_count < MaxUsage
                    /\ image_cache_' = [image_cache_ EXCEPT ![index] = image]
                    /\ mot_ret' = [op |-> "GetNextImage", caller |-> t, call |-> 1 - mot_ret.call,
                                   image |-> image.filename, ok |-> TRUE]
                    /\ cache_mutex_' = 0
                    /\ mot_pc' = [mot_pc EXCEPT ![t] = "idle"]
                    /\ UNCHANGED current_index
       ELSE LET at == IF current_index >= Len(image_cache_) THEN 0 ELSE current_index
            IN /\ mot_ret' = [op |-> "GetNextImage", caller |-> t, call |-> 1 - mot_ret.call,
                              image |-> image_cache_[at + 1].filename, ok |-> TRUE]
               /\ current_index' = at + 1
               /\ cache_mutex_' = 0
               /\ mot_pc' = [mot_pc EXCEPT ![t] = "idle"]
               /\ UNCHANGED image_cache_
    /\ UNCHANGED <<now, util_vars, queue_vars, sched_vars, api_vars, sync_vars, config_,
                   hash_index_, add_pc, add_image_data>>

\* AddImage(filepath) by thread t, up to the duplicate check: image.read,
\* AnalyzeImageQuality, OptimizeImage, CalculateImageHash, IsDuplicate. None of
\* it is under cache_mutex_.
AddImageCheck(t, img) ==
    /\ add_pc[t] = "idle"
    /\ IF ~img.readable
          \/ (config_.enable_duplicate_detection
                /\ IsDuplicateImage(CalculateImageHash(img.data)))
       THEN /\ mot_ret' = [op |-> "AddImage", caller |-> t, call |-> 1 - mot_ret.call,
                           image |-> img.filename, ok |-> FALSE]
            /\ UNCHANGED <<add_pc, add_image_data>>
       ELSE /\ add_pc' = [add_pc EXCEPT ![t] = "checked"]
            /\ add_image_data' = [add_image_data EXCEPT ![t] = ImageData(img)]
            /\ UNCHANGED mot_ret
    /\ UNCHANGED <<now, util_vars, queue_vars, sched_vars, api_vars, sync_vars, config_,
                   image_cache_, hash_index_, cache_mutex_, current_index, mot_pc>>

\* AddImage by thread t, from lock_guard on cache_mutex_ to return true.
AddImageInsert(t) ==
    LET image_data == add_image_data[t]
        pushed == Append(image_cache_, image_data)
    IN /\ add_pc[t] = "checked"
       /\ cache_mutex_ = 0
       /\ image_cache_' = RemoveOldImages(pushed)
       /\ hash_index_' =
             IF Len(pushed) > config_.max_images
             THEN RebuildHashIndex(RemoveOldImages(pushed))
             ELSE MapPut(hash_index_, image_data.hash, Len(pushed))
       /\ mot_ret' = [op |-> "AddImage", caller |-> t, call |-> 1 - mot_ret.call,
                      image |-> image_data.filename, ok |-> TRUE]
       /\ add_pc' = [add_pc EXCEPT ![t] = "idle"]
       /\ add_image_data' = [add_image_data EXCEPT ![t] = NoImageData]
       /\ UNCHANGED <<now, util_vars, queue_vars, sched_vars, api_vars, sync_vars, config_,
                      cache_mutex_, current_index, mot_pc>>

\* --------------------------------------------------------- ContentCoordinator

\* ThaiLanguageProcessor::FormatTextForDLS on the texts items carry: runs of
\* whitespace collapse and the ends are trimmed; nothing here is over 128 bytes.
FormatTextForDLS(input_text) ==
    CASE input_text = "a " -> "a"
      [] OTHER -> input_text

\* ProcessThaiContent(item): the items afterwards.
ProcessThaiContent(item) ==
    IF items[item].text_content # ""
    THEN LET formatted_text == FormatTextForDLS(items[item].text_content)
         IN [items EXCEPT
               ![item].cultural_validation = TRUE,
               ![item].text_content =
                   IF formatted_text # "" /\ formatted_text # @
                   THEN formatted_text ELSE @]
    ELSE items

\* SynchronizeContent, first statement: mot_content = GetCurrentMOTContent().
SynchronizeContentGetMOT ==
    /\ sync_pc = "idle"
    /\ sync_pc' = "mot"
    /\ mot_content' = current_mot_content_
    /\ UNCHANGED <<now, util_vars, queue_vars, sched_vars, api_vars, mot_vars, dls_content,
                   last_sync_, published_pairs>>

\* SynchronizeContent, the rest: dls_content = GetCurrentDLSContent(), then
\* ProcessMOTContent, ProcessDLSContent, ProcessThaiContent, last_sync_.
\* ProcessMOTContent hands image_path to the carousel when it is not empty.
SynchronizeContentRest ==
    LET dls == current_dls_content_
    IN /\ sync_pc = "mot"
       /\ IF mot_content # NoMsg /\ items[mot_content].image_path # ""
          THEN AddImageBody(ImageAt(items[mot_content].image_path))
          ELSE UNCHANGED mot_vars
       /\ sync_pc' = "idle"
       /\ dls_content' = dls
       /\ IF dls # NoMsg /\ items[dls].text_content # ""
          THEN AddMessageBody(ProcessorMessage(items[dls].text_content,
                                               items[dls].priority, "MANUAL"))
          ELSE UNCHANGED queue_vars
       /\ items' = IF dls # NoMsg /\ items[dls].is_thai_content
                   THEN ProcessThaiContent(dls)
                   ELSE items
       /\ last_sync_' = now
       /\ UNCHANGED <<now, util_vars, api_vars, mot_content, published_pairs, scheduled_content_,
                      current_mot_content_, current_dls_content_,
                      emergency_override_, emergency_content_, emergency_start_,
                      emergency_duration_, scheduler_running_, loop_pc, wake_at,
                      sched_ret>>

\* -------------------------------------------------------- SecurePathValidator
\* A path is a sequence of characters; "NUL" stands for the byte 0 and "\\"
\* for the backslash.

\* std::string::find(pattern) != npos
Find(s, pattern) ==
    \E i \in 1..(Len(s) - Len(pattern) + 1) :
        SubSeq(s, i, i + Len(pattern) - 1) = pattern

blocked_patterns_ ==
    { <<".", ".">>, <<"~">>, <<"$">>, <<"`">>, <<"|">>, <<"&">>, <<";">>,
      <<"<">>, <<">">>, <<"\"">>, <<"'">>, <<"\\", "x">>, <<"\\", "u">>,
      <<"\\", "r">>, <<"\\", "n">>, <<"\\", "t">>, <<"\\", "0">> }

ContainsTraversal(path) ==
    \/ Find(path, <<".", ".">>)
    \/ Find(path, <<"~">>)
    \/ Find(path, <<"/", "/">>)
    \/ Find(path, <<"%", "2", "e", "%", "2", "e">>)
    \/ Find(path, <<"%", "2", "f">>)
    \/ Find(path, <<"%", "5", "c">>)

MatchesBlockedPattern(path) == \E pattern \in blocked_patterns_ : Find(path, pattern)

\* ::tolower on the characters paths are made of.
ToLower(c) == CASE c = "R" -> "r" [] c = "E" -> "e" [] OTHER -> c

RECURSIVE MapChars(_, _)
\* kind "lower": tolower and backslash to slash; kind "sanitize": NUL removed
\* and backslash to slash.
MapChars(s, kind) ==
    IF s = <<>> THEN <<>>
    ELSE LET c == Head(s)
             d == IF c = "\\" THEN "/" ELSE IF kind = "lower" THEN ToLower(c) ELSE c
         IN (IF kind = "sanitize" /\ c = "NUL" THEN <<>> ELSE <<d>>)
                \o MapChars(Tail(s), kind)

RECURSIVE CollapseSlashes(_)
\* regex_replace of "//+" by "/" until no "//" is left.
CollapseSlashes(s) ==
    IF Len(s) < 2 THEN s
    ELSE IF s[1] = "/" /\ s[2] = "/" THEN CollapseSlashes(Tail(s))
    ELSE <<s[1]>> \o CollapseSlashes(Tail(s))

SanitizePath(path) ==
    LET sanitized == CollapseSlashes(MapChars(path, "sanitize"))
    IN IF Len(sanitized) > 1 /\ sanitized[Len(sanitized)] = "/"
       THEN SubSeq(sanitized, 1, Len(sanitized) - 1)
       ELSE sanitized

NormalizePath(path) == CollapseSlashes(MapChars(path, "lower"))

IsInAllowedDirectory(path) ==
    IF allowed_directories_ = {} THEN ~strict_mode_
    ELSE LET normalized_path == NormalizePath(path)
         IN \E allowed_dir \in allowed_directories_ :
              LET normalized_allowed == NormalizePath(allowed_dir)
              IN /\ SubSeq(normalized_path, 1, Len(normalized_allowed)) = normalized_allowed
                 /\ \/ Len(normalized_path) = Len(normalized_allowed)
                    \/ /\ Len(normalized_path) > Len(normalized_allowed)
                       /\ normalized_path[Len(normalized_allowed) + 1] = "/"

\* The files there are (fs::exists).
FileSystem ==
    { <<"/", "r", "/", "a">>, <<"/", "r", "x", "/", "a">>, <<"/", "e", "/", "a">> }

\* ValidatePath(path): the FileValidation returned.
ValidatePath(path) ==
    LET validation == [is_valid |-> FALSE, is_safe |-> FALSE,
                       security_issues |-> <<>>,
                       sanitized_path |-> SanitizePath(path)]
    IN IF ContainsTraversal(path)
       THEN [validation EXCEPT
               !.security_issues = <<"Directory traversal attempt detected">>]
       ELSE IF MatchesBlockedPattern(path)
       THEN [validation EXCEPT !.security_issues = <<"Contains blocked pattern">>]
       ELSE IF ~IsInAllowedDirectory(path)
       THEN [validation EXCEPT !.security_issues = <<"Path not in allowed directory">>]
       ELSE IF validation.sanitized_path \in FileSystem
       THEN [validation EXCEPT !.is_valid = TRUE, !.is_safe = TRUE]
       ELSE validation

\* A caller validating path.
CallValidatePath(path) ==
    /\ path_ret' = [op |-> "ValidatePath", path |-> path,
                    validation |-> ValidatePath(path)]
    /\ UNCHANGED <<now, queue_vars, sched_vars, api_vars, sync_vars, mot_vars,
                   allowed_directories_, strict_mode_, thai_ret, call_ret, bg_vars>>

\* ---------------------------------------------------------------- inputs

Texts == {"a", "bb"}

\* struct DLSMessage with its default member initialisers
DefaultMessage ==
    [text |-> "a", priority |-> NORMAL, source |-> "MANUAL",
     created_at |-> 0, expires_at |-> 0, last_sent |-> 0,
     send_count |-> 0, max_sends |-> 0,
     importance |-> ImportanceUnit \div 2, scalings |-> 0,
     source_id |-> "", content_hash |-> <<>>, is_thai_content |-> FALSE]

\* struct SelectionCriteria with its default member initialisers; the default
\* min_repeat_interval of 300 s is shorter than a tick and counts as one tick.
DefaultCriteria ==
    [min_priority |-> BACKGROUND, max_priority |-> EMERGENCY,
     allowed_sources |-> {}, blocked_sources |-> {},
     max_age |-> 1 * TicksPerHour, allow_repeats |-> TRUE,
     max_repeat_count |-> 3, min_repeat_interval |-> 1,
     max_text_length |-> 128, prefer_thai_content |-> FALSE,
     scoring_function |-> "none"]

\* Criteria whose priority bounds are EMERGENCY..BACKGROUND by ordinal.
AllPriorities == [DefaultCriteria EXCEPT !.min_priority = EMERGENCY,
                                         !.max_priority = BACKGROUND]

\* Criteria that differ in one eligibility check each.
CriteriaSet ==
    { DefaultCriteria,
      AllPriorities,
      [AllPriorities EXCEPT !.scoring_function = "default"],
      [AllPriorities EXCEPT !.prefer_thai_content = TRUE],
      [AllPriorities EXCEPT !.allow_repeats = FALSE],
      [AllPriorities EXCEPT !.max_repeat_count = 1],
      [AllPriorities EXCEPT !.min_repeat_interval = 2],
      [AllPriorities EXCEPT !.max_text_length = 1],
      [AllPriorities EXCEPT !.allowed_sources = {"RSS_FEED"}],
      [AllPriorities EXCEPT !.blocked_sources = {"MANUAL"}],
      [AllPriorities EXCEPT !.min_priority = HIGH, !.max_priority = HIGH] }

\* Submissions that differ in what the eligibility checks look at.
GateInputs ==
    { [DefaultMessage EXCEPT !.text = t, !.source_id = t, !.priority = p,
                             !.max_sends = ms] :
        t \in Texts \cup {""}, p \in {HIGH, NORMAL}, ms \in {0, 1} }

\* Criteria and submissions for priority, repeat throttle and send limit.
SelectCriteria ==
    { DefaultCriteria,
      AllPriorities,
      [AllPriorities EXCEPT !.scoring_function = "default"],
      [AllPriorities EXCEPT !.min_repeat_interval = 2] }

SelectInputs ==
    { [DefaultMessage EXCEPT !.text = "a", !.source_id = "a", !.priority = HIGH,
                             !.max_sends = ms] : ms \in {0, 1} }
    \cup { [DefaultMessage EXCEPT !.text = "bb", !.source_id = "bb",
                                  !.priority = NORMAL, !.max_sends = ms] :
               ms \in {0, 1} }

\* Criteria and submissions that differ in what the ordering looks at.
ScoreCriteria ==
    { AllPriorities,
      [AllPriorities EXCEPT !.scoring_function = "default"],
      [AllPriorities EXCEPT !.scoring_function = "default",
                            !.prefer_thai_content = TRUE] }

ScoreInputs ==
    { [DefaultMessage EXCEPT !.text = t, !.source_id = t, !.priority = p,
                             !.importance = imp] :
        t \in Texts, p \in {HIGH, NORMAL},
        imp \in {ImportanceUnit \div 2, ImportanceUnit} }

\* Criteria and submissions that differ in what deduplication and expiry look at.
ExpiryCriteria ==
    { AllPriorities,
      [AllPriorities EXCEPT !.max_age = 24 * TicksPerHour] }

ExpiryInputs ==
    { [DefaultMessage EXCEPT !.text = t, !.source_id = t,
                             !.created_at = ca, !.expires_at = ea] :
        t \in Texts, ca \in {0, now - DedupWindow}, ea \in {0, now} }

\* struct ContentItem as ContentCoordinator::AddContent fills it, with the
\* schedule window the caller sets; quality < 0: no "quality" in the metadata.
DefaultItem ==
    [type |-> "DLS_MESSAGE", priority |-> NORMAL, start_time |-> 0, end_time |-> 0,
     max_repeats |-> 0, current_repeats |-> 0, schedule_count |-> 0,
     is_active |-> TRUE, is_emergency |-> FALSE, quality |-> -1,
     display_count |-> 0, last_displayed |-> 0,
     text_content |-> "a", image_path |-> "", is_thai_content |-> FALSE,
     cultural_validation |-> FALSE]

ScheduleInputs ==
    { [DefaultItem EXCEPT !.type = "DLS_MESSAGE", !.start_time = StartTime,
                          !.end_time = EndTime],
      [DefaultItem EXCEPT !.type = "MOT_SLIDESHOW", !.start_time = StartTime,
                          !.end_time = EndTime, !.quality = 800] }

\* The item ContentCoordinator::TriggerEmergencyBroadcast makes.
EmergencyItem(duration) ==
    [DefaultItem EXCEPT !.type = "EMERGENCY_ALERT", !.priority = EMERGENCY,
                        !.is_emergency = TRUE, !.start_time = now,
                        !.end_time = now + duration]

DefaultCarouselConfig ==
    [max_images |-> MaxImages, enable_duplicate_detection |-> TRUE,
     enable_smart_selection |-> TRUE]

CarouselConfigs ==
    { [DefaultCarouselConfig EXCEPT !.enable_duplicate_detection = d,
                                    !.enable_smart_selection = s] :
        d \in BOOLEAN, s \in BOOLEAN }

\* Paths: a root, something after it, a file name.
PathRoots == { <<"/", "r">>, <<"/", "r", "x">>, <<"/", "e">> }

PathMiddles ==
    { <<"/">>, <<"/", "/">>, <<"/", ".", ".", "/">>, <<"/", "~">>,
      <<"/", "%", "2", "e", "%", "2", "e", "/">>, <<"/", "%", "2", "f">>,
      <<"/", "%", "5", "c">>, <<"/", "NUL">>, <<"/", "$">> }

PathInputs ==
    { root \o middle \o file :
        root \in PathRoots, middle \in PathMiddles, file \in {<<"a">>, <<"b">>} }

AllowedRoot == <<"/", "r">>

\* ---------------------------------------------------------- specifications

Constructed ==
    /\ now = StartTime
    /\ msgs = <<>>
    /\ priority_queue_ = {}
    /\ message_index_ = <<>>
    /\ content_hashes_ = <<>>
    /\ total_messages_ = 0
    /\ expired_messages_ = 0
    /\ seen_at = <<>>
    /\ ret = [op |-> "init", msg |-> NoMsg]
    /\ items = <<>>
    /\ scheduled_content_ = <<>>
    /\ current_mot_content_ = NoMsg
    /\ current_dls_content_ = NoMsg
    /\ emergency_override_ = FALSE
    /\ emergency_content_ = NoMsg
    /\ emergency_start_ = 0
    /\ emergency_duration_ = 0
    /\ scheduler_running_ = FALSE
    /\ loop_pc = "none"
    /\ wake_at = 0
    /\ sched_ret = [op |-> "init", item |-> NoMsg]
    /\ emergency_mode_ = FALSE
    /\ emergency_message_ = ""
    /\ emergency_start_time_ = 0
    /\ sync_pc = "idle"
    /\ mot_content = NoMsg
    /\ dls_content = NoMsg
    /\ last_sync_ = 0
    /\ published_pairs = {<<NoMsg, NoMsg>>}
    /\ image_cache_ = <<>>
    /\ hash_index_ = <<>>
    /\ cache_mutex_ = 0
    /\ current_index = 0
    /\ mot_pc = [t \in Callers |-> "idle"]
    /\ mot_ret = [op |-> "init", caller |-> 0, call |-> 0, image |-> "", ok |-> FALSE]
    /\ add_pc = [t \in Callers |-> "idle"]
    /\ add_image_data = [t \in Callers |-> NoImageData]
    /\ path_ret = [op |-> "init", path |-> <<>>,
                   validation |-> [is_valid |-> FALSE, is_safe |-> FALSE,
                                   security_issues |-> <<>>, sanitized_path |-> <<>>]]
    /\ thai_ret = [op |-> "init", chain |-> <<>>]
    /\ call_ret = [op |-> "init"]
    /\ processing_active_ = FALSE
    /\ background_processor_ = [joinable |-> FALSE, loops |-> 0,
                                terminate_called |-> FALSE]

\* SecurePathValidator(allowed_dirs, strict) with the allowed root.
ValidatorConstructed == allowed_directories_ = {AllowedRoot} /\ strict_mode_ = TRUE

Init == Constructed /\ config_ = DefaultCarouselConfig /\ ValidatorConstructed

\* Construction with any CarouselConfig.
InitCarousel == Constructed /\ config_ \in CarouselConfigs /\ ValidatorConstructed

\* Construction with either constructor of SecurePathValidator.
InitValidator ==
    /\ Constructed
    /\ config_ = DefaultCarouselConfig
    /\ allowed_directories_ \in {{}, {AllowedRoot}}
    /\ strict_mode_ \in BOOLEAN

Next ==
    \/ \E m \in SelectInputs : AddMessage(m)
    \/ \E c \in SelectCriteria : GetNextMessage(c)
    \/ AdvanceTime

Spec == Init /\ [][Next]_vars

NextGates ==
    \/ \E m \in GateInputs : AddMessage(m)
    \/ \E c \in CriteriaSet : GetNextMessage(c)
    \/ AdvanceTime

SpecGates == Init /\ [][NextGates]_vars

\* The caption of the one Thai letter ko kai: a std::string holds its UTF-8
\* bytes E0 B8 81, written here one character for each byte.
ThaiCaption == "k12"

\* Captions in Thai and in ASCII, submitted at two priorities.
ThaiGateInputs ==
    { [DefaultMessage EXCEPT !.text = t, !.source_id = t, !.priority = p,
                             !.is_thai_content = (t = ThaiCaption)] :
        t \in {"a", ThaiCaption}, p \in {HIGH, NORMAL} }

\* Criteria whose max_text_length lies between the two lengths of ThaiCaption.
ThaiGateCriteria ==
    { AllPriorities, [AllPriorities EXCEPT !.max_text_length = 2] }

NextThaiGate ==
    \/ \E m \in ThaiGateInputs : AddMessage(m)
    \/ \E c \in ThaiGateCriteria : GetNextMessage(c)
    \/ AdvanceTime

SpecThaiGate == Init /\ [][NextThaiGate]_vars

NextScore ==
    \/ \E m \in ScoreInputs : AddMessage(m)
    \/ \E c \in ScoreCriteria : GetNextMessage(c)
    \/ AdvanceTime

SpecScore == Init /\ [][NextScore]_vars

NextExpiry ==
    \/ \E m \in ExpiryInputs : AddMessage(m)
    \/ \E c \in ExpiryCriteria : GetNextMessage(c)
    \/ AdvanceTime

SpecExpiry == Init /\ [][NextExpiry]_vars

\* Criteria and submissions for allow_repeats.
RepeatCriteria == {AllPriorities, [AllPriorities EXCEPT !.allow_repeats = FALSE]}

RepeatInputs ==
    { [DefaultMessage EXCEPT !.text = t, !.source_id = t] : t \in Texts }

NextRepeat ==
    \/ \E m \in RepeatInputs : AddMessage(m)
    \/ \E c \in RepeatCriteria : GetNextMessage(c)
    \/ AdvanceTime

SpecRepeat == Init /\ [][NextRepeat]_vars

\* emergency_criteria of ContextAwareSelector's constructor, with the scoring
\* function GetNextDLSText sets; its min_repeat_interval of 30 s counts as one
\* tick.
EmergencyCriteria ==
    [DefaultCriteria EXCEPT !.min_priority = EMERGENCY, !.allow_repeats = TRUE,
                            !.max_repeat_count = 10, !.min_repeat_interval = 1,
                            !.scoring_function = "default"]

NextEmergency ==
    \/ \E t \in Texts : TriggerEmergencyMode(t)
    \/ \E t \in Texts : ProcessorAddMessage(t, NORMAL, "MANUAL")
    \/ ClearEmergencyMode
    \/ GetNextMessage(EmergencyCriteria)
    \/ AdvanceTime

SpecEmergency == Init /\ [][NextEmergency]_vars

\* Scheduled entries whose window ends at once or lasts.
HoldInputs ==
    { [DefaultItem EXCEPT !.type = ty, !.start_time = StartTime, !.end_time = e] :
        ty \in {"DLS_MESSAGE", "MOT_SLIDESHOW"}, e \in {StartTime, EndTime} }

NextHold ==
    \/ Start
    \/ SchedulingLoop
    \/ \E item \in HoldInputs : AddContent(item)
    \/ \E i \in 1..MaxItems : RemoveContent(i)
    \/ AdvanceTime

SpecHold == Init /\ [][NextHold]_vars

\* The coordination thread reading beside the scheduling thread.
SyncInputs ==
    { [DefaultItem EXCEPT !.type = "DLS_MESSAGE", !.start_time = StartTime,
                          !.end_time = EndTime, !.text_content = "a ",
                          !.is_thai_content = TRUE],
      [DefaultItem EXCEPT !.type = "MOT_SLIDESHOW", !.start_time = StartTime,
                          !.end_time = EndTime, !.quality = 800,
                          !.image_path = "hi.jpg"] }

NextSync ==
    \/ Start
    \/ SchedulingLoop
    \/ \E item \in SyncInputs : AddContent(item)
    \/ SynchronizeContentGetMOT
    \/ SynchronizeContentRest
    \/ GetCurrentDLSContent
    \/ GetNextMessage(AllPriorities)
    \/ AdvanceTime

SpecSync == Init /\ [][NextSync]_vars

\* The carousel with one ingesting thread and the callers of GetNextImage.
NextCarousel ==
    \/ \E img \in Images : AddImage(img)
    \/ \E t \in Callers : GetNextImageLock(t)
    \/ \E t \in Callers : GetNextImageLocked(t)
    \/ AdvanceTime

SpecCarousel == InitCarousel /\ [][NextCarousel]_vars

IngestImages == {img \in Images : img.filename \in {"hi.jpg", "mid.jpg", "bad.jpg"}}

\* ---------------------------------------------------- ThaiLanguageProcessor
\* A text is the sequence of its Unicode code points, DAB data the sequence of
\* its bytes.

\* InitializeUTF8ToDABMapping: std::map<uint16_t, uint8_t>
utf8_to_dab_map_ ==
    [c \in (\H0E01..\H0E2E) \cup (\H0E30..\H0E4F) \cup (\H0E50..\H0E5B) |->
        CASE c \in \H0E01..\H0E2E -> c - \H0E01 + \H01
          [] c \in \H0E30..\H0E4F -> c - \H0E30 + \H30
          [] c \in \H0E50..\H0E59 -> c - \H0E50 + \H50
          [] OTHER -> c - \H0E00]

RECURSIVE FromBytes(_)

\* converter.from_bytes: the UTF-16 code units of a text; a code point above
\* U+FFFF becomes a surrogate pair.
FromBytes(utf8_text) ==
    IF utf8_text = <<>> THEN <<>>
    ELSE LET c == Head(utf8_text)
             units == IF c < 65536 THEN <<c>>
                      ELSE << \HD800 + ((c - 65536) \div 1024),
                              \HDC00 + ((c - 65536) % 1024) >>
         IN units \o FromBytes(Tail(utf8_text))

\* ConvertUTF8ToDAB: dab_data when it returns.
ConvertUTF8ToDAB(utf8_text) ==
    LET utf16_text == FromBytes(utf8_text)
    IN << \H0E >> \o
       [i \in 1..Len(utf16_text) |->
          LET c == utf16_text[i]
          IN IF c \in DOMAIN utf8_to_dab_map_ THEN utf8_to_dab_map_[c]
             ELSE IF c < \H80 THEN c
             ELSE \H3F]

\* A decoder without the branch for ASCII bytes.
ConvertDABToUTF8NoASCII(dab_data) ==
    IF dab_data = <<>> \/ dab_data[1] # \H0E THEN <<>>
    ELSE [k \in 1..(Len(dab_data) - 1) |->
            LET dab_char == dab_data[k + 1]
                found == {c \in DOMAIN utf8_to_dab_map_ :
                            utf8_to_dab_map_[c] = dab_char}
            IN IF found # {}
               THEN CHOOSE c \in found : \A d \in found : c <= d
               ELSE \H3F]

\* ConvertDABToUTF8: the reverse lookup walks the map in key order; the
\* code units it collects are all below the surrogates, so to_bytes gives one
\* code point for each.
ConvertDABToUTF8(dab_data) ==
    IF dab_data = <<>> \/ dab_data[1] # \H0E THEN <<>>
    ELSE [k \in 1..(Len(dab_data) - 1) |->
            LET dab_char == dab_data[k + 1]
                found == {c \in DOMAIN utf8_to_dab_map_ :
                            utf8_to_dab_map_[c] = dab_char}
            IN IF found # {}
               THEN CHOOSE c \in found : \A d \in found : c <= d
               ELSE IF dab_char < \H80 THEN dab_char
               ELSE \H3F]

\* Code points texts are made of: a Thai letter, a vowel and the baht sign,
\* an unassigned Thai code point, ASCII, Latin-1 and an emoji.
CodePoints ==
    { \H0E01, \H0E31, \H0E3F, \H0E2F, \H20, \H61, \HE9, \H1F600 }

MaxTextLen == 2

ThaiTexts == UNION { [1..n -> CodePoints] : n \in 0..MaxTextLen }

\* thai_ret.chain: the text given, then the result of each call made on the
\* result before it.
CallConvertUTF8ToDAB(utf8_text) ==
    /\ thai_ret' = [op |-> "ConvertUTF8ToDAB",
                    chain |-> <<utf8_text, ConvertUTF8ToDAB(utf8_text)>>]
    /\ UNCHANGED <<now, queue_vars, sched_vars, api_vars, sync_vars, mot_vars,
                   allowed_directories_, strict_mode_, path_ret, call_ret, bg_vars>>

DecodeResult ==
    /\ thai_ret.op = "ConvertUTF8ToDAB"
    /\ Len(thai_ret.chain) < 4
    /\ thai_ret' = [op |-> "ConvertDABToUTF8",
                    chain |-> Append(thai_ret.chain,
                                ConvertDABToUTF8(thai_ret.chain[Len(thai_ret.chain)]))]
    /\ UNCHANGED <<now, queue_vars, sched_vars, api_vars, sync_vars, mot_vars,
                   allowed_directories_, strict_mode_, path_ret, call_ret, bg_vars>>

EncodeResult ==
    /\ thai_ret.op = "ConvertDABToUTF8"
    /\ thai_ret' = [op |-> "ConvertUTF8ToDAB",
                    chain |-> Append(thai_ret.chain,
                                ConvertUTF8ToDAB(thai_ret.chain[Len(thai_ret.chain)]))]
    /\ UNCHANGED <<now, queue_vars, sched_vars, api_vars, sync_vars, mot_vars,
                   allowed_directories_, strict_mode_, path_ret, call_ret, bg_vars>>

NextThai ==
    \/ \E utf8_text \in ThaiTexts : CallConvertUTF8ToDAB(utf8_text)
    \/ DecodeResult
    \/ EncodeResult

SpecThai == Init /\ [][NextThai]_vars

\* --------------------------------------------------- MessageLengthOptimizer
\* A text is the sequence of its characters (bytes).

\* size_t arithmetic wraps at 2^64; SizeWrap stands for 2^64 in a range the
\* model checker's integers have.
SizeWrap == 1073741824

RECURSIVE BreakPos(_, _, _)

\* The loop of SmartTruncate looking for a word boundary from break_pos down.
BreakPos(text, max_length, break_pos) ==
    IF break_pos * 10 > max_length * 7 /\ break_pos > 0
    THEN IF text[break_pos + 1] \in {" ", ",", ".", "!", "?"}
         THEN break_pos
         ELSE BreakPos(text, max_length, break_pos - 1)
    ELSE break_pos

\* SmartTruncate(text, max_length): what a call may do. With max_length < 3
\* the first break_pos is 2^64 - 3 + max_length and text[break_pos] reads
\* outside the string: the process is ended by the read, or the loop stops at
\* a byte outside the string and substr(0, break_pos) is the whole text.
SmartTruncate(text, max_length) ==
    IF Len(text) <= max_length THEN {[crashed |-> FALSE, text |-> text]}
    ELSE LET first == (max_length - 3) % SizeWrap
         IN IF first > Len(text)
            THEN {[crashed |-> TRUE, text |-> <<>>],
                  [crashed |-> FALSE, text |-> text]}
            ELSE LET break_pos == BreakPos(text, max_length, first)
                 IN {[crashed |-> FALSE,
                      text |-> SubSeq(text, 1, break_pos)
                                 \o (IF break_pos < Len(text)
                                     THEN <<".", ".", ".">> ELSE <<>>)]}

MaxCaptionLen == 4

CaptionTexts == UNION { [1..n -> {"a", " "}] : n \in 0..MaxCaptionLen }

CallSmartTruncate(text, max_length) ==
    /\ \E r \in SmartTruncate(text, max_length) :
          call_ret' = [op |-> "SmartTruncate", text |-> text,
                       max_length |-> max_length, result |-> r]
    /\ UNCHANGED <<now, queue_vars, sched_vars, api_vars, sync_vars, mot_vars,
                   allowed_directories_, strict_mode_, path_ret, thai_ret, bg_vars>>

NextTruncate ==
    \E text \in CaptionTexts, max_length \in 0..MaxCaptionLen :
        CallSmartTruncate(text, max_length)

SpecTruncate == Init /\ [][NextTruncate]_vars

\* ------------------------------------------------------------ ImageOptimizer
\* blob.length() of the image written at a quality: larger at higher quality,
\* in proportion to what the image holds.
EncodedSize(detail, quality) == detail * quality

RECURSIVE TryQualities(_, _, _)

\* The loop of OptimizeForDAB from a quality down: for (...; quality >= 50;
\* quality -= 10).
TryQualities(detail, max_size, quality) ==
    IF quality >= 50
    THEN IF EncodedSize(detail, quality) <= max_size
         THEN [ok |-> TRUE, quality |-> quality,
               size |-> EncodedSize(detail, quality)]
         ELSE TryQualities(detail, max_size, quality - 10)
    ELSE [ok |-> FALSE, quality |-> 0, size |-> 0]

\* OptimizeForDAB(input_path, output_data, max_size) on a readable image.
OptimizeForDAB(detail, max_size) == TryQualities(detail, max_size, 95)

CallOptimizeForDAB(detail, max_size) ==
    /\ call_ret' = [op |-> "OptimizeForDAB", detail |-> detail,
                    max_size |-> max_size,
                    result |-> OptimizeForDAB(detail, max_size)]
    /\ UNCHANGED <<now, queue_vars, sched_vars, api_vars, sync_vars, mot_vars,
                   allowed_directories_, strict_mode_, path_ret, thai_ret, bg_vars>>

NextOptimize ==
    \E detail \in 1..10, k \in 1..12 : CallOptimizeForDAB(detail, 50 * k)

SpecOptimize == Init /\ [][NextOptimize]_vars

\* ------------------------------------- ThaiLanguageProcessor: DLS formatting
\* Bytes of a text: "a" an ASCII letter, " " a space, "T" a byte of a Thai
\* letter's UTF-8 form (its high bit is set).

RECURSIVE CollapseWhitespace(_)

\* std::regex_replace(output_text, R"(\s+)", " ")
CollapseWhitespace(text) ==
    IF Len(text) < 2 THEN text
    ELSE IF text[1] = " " /\ text[2] = " " THEN CollapseWhitespace(Tail(text))
    ELSE <<text[1]>> \o CollapseWhitespace(Tail(text))

\* The two erase calls that trim the ends.
TrimSpaces(text) ==
    LET lead == IF text # <<>> /\ text[1] = " " THEN Tail(text) ELSE text
    IN IF lead # <<>> /\ lead[Len(lead)] = " "
       THEN SubSeq(lead, 1, Len(lead) - 1) ELSE lead

RECURSIVE DLSBreakPos(_, _, _)

\* The loop of FormatTextForDLS looking for a break from break_pos down.
DLSBreakPos(output_text, max_length, break_pos) ==
    IF break_pos * 10 > max_length * 8
    THEN IF output_text[break_pos + 1] # "T"
         THEN break_pos
         ELSE DLSBreakPos(output_text, max_length, break_pos - 1)
    ELSE break_pos

\* FormatTextForDLS(input_text, output_text, max_length): output_text when it
\* returns.
FormatTextForDLSWithin(input_text, max_length) ==
    LET output_text == TrimSpaces(CollapseWhitespace(input_text))
    IN IF Len(output_text) > max_length
       THEN LET break_pos == DLSBreakPos(output_text, max_length, max_length)
            IN SubSeq(output_text, 1, break_pos)
                  \o (IF break_pos < Len(input_text)
                      THEN <<".", ".", ".">> ELSE <<>>)
       ELSE output_text

DLSTexts == UNION { [1..n -> {"a", " ", "T"}] : n \in 0..MaxCaptionLen }

CallFormatTextForDLS(input_text, max_length) ==
    /\ call_ret' = [op |-> "FormatTextForDLS", input_text |-> input_text,
                    max_length |-> max_length,
                    output_text |-> FormatTextForDLSWithin(input_text, max_length)]
    /\ UNCHANGED <<now, queue_vars, sched_vars, api_vars, sync_vars, mot_vars,
                   allowed_directories_, strict_mode_, path_ret, thai_ret, bg_vars>>

NextFormat ==
    \E input_text \in DLSTexts, max_length \in 0..MaxCaptionLen :
        CallFormatTextForDLS(input_text, max_length)

SpecFormat == Init /\ [][NextFormat]_vars

\* ------------------------------------------- ThaiLanguageProcessor: calendar
\* InitializeHolidayCalendar: the BuddhistDate entries by year_ce, month, day
\* and is_holy_day.
holiday_calendar_ ==
    { [year_ce |-> 2024, month |-> md[1], day |-> md[2], is_holy_day |-> md[3]] :
        md \in { <<1, 1, FALSE>>, <<2, 24, TRUE>>, <<4, 6, FALSE>>,
                 <<4, 13, FALSE>>, <<5, 1, FALSE>>, <<5, 4, FALSE>>,
                 <<5, 22, TRUE>>, <<7, 28, FALSE>>, <<8, 12, FALSE>>,
                 <<10, 23, FALSE>>, <<12, 5, FALSE>>, <<12, 10, FALSE>> } }

\* IsHolyDay(date), date given by the fields of std::localtime.
IsHolyDay(date) ==
    \E holiday \in holiday_calendar_ :
        /\ holiday.is_holy_day
        /\ holiday.month = date.month
        /\ holiday.day = date.day

CallIsHolyDay(date) ==
    /\ call_ret' = [op |-> "IsHolyDay", date |-> date, result |-> IsHolyDay(date)]
    /\ UNCHANGED <<now, queue_vars, sched_vars, api_vars, sync_vars, mot_vars,
                   allowed_directories_, strict_mode_, path_ret, thai_ret, bg_vars>>

NextCalendar ==
    \E y \in 2023..2025, m \in 1..12, d \in {1, 22, 24, 25} :
        CallIsHolyDay([year |-> y, month |-> m, day |-> d])

SpecCalendar == Init /\ [][NextCalendar]_vars

\* -------------------------------------------- ThaiLanguageProcessor: numbers
\* A formatted number is the sequence of its parts: a Thai digit is its code
\* point, "-" the minus sign, a word of the table its transliteration.

RECURSIVE DecimalDigits(_)

\* The digits of std::to_string for a number >= 0.
DecimalDigits(n) ==
    IF n < 10 THEN <<n>> ELSE Append(DecimalDigits(n \div 10), n % 10)

\* case THAI_DIGITS
FormatThaiDigits(number) ==
    LET western == IF number < 0 THEN DecimalDigits(-number)
                   ELSE DecimalDigits(number)
        mapped == [i \in 1..Len(western) |-> \H0E50 + western[i]]
    IN IF number < 0 THEN <<"-">> \o mapped ELSE mapped

\* std::vector<std::string> thai_digits
thai_digits ==
    <<"soon", "nueng", "song", "sam", "si", "ha", "hok", "chet", "paet", "kao">>

\* case THAI_WORDS: what a call may do. thai_digits[number] with number < 0
\* reads a std::string outside the vector: the read ends the process, or
\* whatever it finds there is taken for the word.
FormatThaiWords(number) ==
    IF number = 0 THEN {[crashed |-> FALSE, text |-> <<thai_digits[1]>>]}
    ELSE IF number < 0
    THEN {[crashed |-> TRUE, text |-> <<>>],
          [crashed |-> FALSE, text |-> <<"lop", "outside the table">>]}
    ELSE IF number < 10
    THEN {[crashed |-> FALSE, text |-> <<thai_digits[number + 1]>>]}
    ELSE IF number < 20
    THEN {[crashed |-> FALSE,
           text |-> <<"sip">> \o (IF number > 10
                                 THEN <<thai_digits[number - 10 + 1]>>
                                 ELSE <<>>)]}
    ELSE IF number < 100
    THEN {[crashed |-> FALSE,
           text |-> <<thai_digits[(number \div 10) + 1], "sip">>
                      \o (IF number % 10 > 0
                          THEN <<thai_digits[(number % 10) + 1]>> ELSE <<>>)]}
    ELSE {[crashed |-> FALSE, text |-> FormatThaiDigits(number)]}

CallFormatNumber(number) ==
    /\ \E r \in FormatThaiWords(number) :
          call_ret' = [op |-> "FormatNumber", number |-> number, result |-> r]
    /\ UNCHANGED <<now, queue_vars, sched_vars, api_vars, sync_vars, mot_vars,
                   allowed_directories_, strict_mode_, path_ret, thai_ret, bg_vars>>

NextNumber == \E number \in -120..150 : CallFormatNumber(number)

SpecNumber == Init /\ [][NextNumber]_vars

\* ------------------------------- EnhancedMOTProcessor: background processing
\* background_processor_.joinable: the std::thread object refers to a thread;
\* loops: the threads running BackgroundProcessingLoop; terminate_called:
\* std::terminate has ended the process, which a std::thread assigned while
\* joinable does.

\* What the carousel's variables other than mot_pc keep.
CarouselKept ==
    UNCHANGED <<now, queue_vars, sched_vars, api_vars, sync_vars, config_,
                image_cache_, hash_index_, cache_mutex_, current_index, mot_ret,
                add_pc, add_image_data, allowed_directories_, strict_mode_,
                path_ret, thai_ret, call_ret>>

\* StartBackgroundProcessing by caller t: processing_active_.exchange(true)
StartExchange(t) ==
    /\ ~background_processor_.terminate_called
    /\ mot_pc[t] = "idle"
    /\ ~processing_active_
    /\ processing_active_' = TRUE
    /\ mot_pc' = [mot_pc EXCEPT ![t] = "start_assign"]
    /\ UNCHANGED background_processor_
    /\ CarouselKept

\* StartBackgroundProcessing by caller t: background_processor_ = std::thread(...)
StartAssign(t) ==
    /\ ~background_processor_.terminate_called
    /\ mot_pc[t] = "start_assign"
    /\ background_processor_' =
          IF background_processor_.joinable
          THEN [background_processor_ EXCEPT !.terminate_called = TRUE]
          ELSE [background_processor_ EXCEPT !.joinable = TRUE, !.loops = @ + 1]
    /\ mot_pc' = [mot_pc EXCEPT ![t] = "idle"]
    /\ UNCHANGED processing_active_
    /\ CarouselKept

\* StopBackgroundProcessing by caller t: processing_active_.exchange(false)
StopExchange(t) ==
    /\ ~background_processor_.terminate_called
    /\ mot_pc[t] = "idle"
    /\ processing_active_
    /\ processing_active_' = FALSE
    /\ mot_pc' = [mot_pc EXCEPT ![t] = "stop_join"]
    /\ UNCHANGED background_processor_
    /\ CarouselKept

\* StopBackgroundProcessing by caller t: joinable() and join(), which returns
\* once the thread has left its loop.
StopJoin(t) ==
    /\ ~background_processor_.terminate_called
    /\ mot_pc[t] = "stop_join"
    /\ background_processor_.joinable => background_processor_.loops = 0
    /\ background_processor_' = [background_processor_ EXCEPT !.joinable = FALSE]
    /\ mot_pc' = [mot_pc EXCEPT ![t] = "idle"]
    /\ UNCHANGED processing_active_
    /\ CarouselKept

\* BackgroundProcessingLoop reads processing_active_ as false and returns.
BackgroundProcessingLoopExit ==
    /\ ~background_processor_.terminate_called
    /\ background_processor_.loops > 0
    /\ ~processing_active_
    /\ background_processor_' = [background_processor_ EXCEPT !.loops = @ - 1]
    /\ UNCHANGED <<processing_active_, mot_pc>>
    /\ CarouselKept

NextBackground ==
    \/ \E t \in Callers : StartExchange(t)
    \/ \E t \in Callers : StartAssign(t)
    \/ \E t \in Callers : StopExchange(t)
    \/ \E t \in Callers : StopJoin(t)
    \/ BackgroundProcessingLoopExit
    \/ AdvanceTime

SpecBackground == Init /\ [][NextBackground]_vars

\* ------------------------------------------ StreamDABAPIService: status loop
\* The thread running StatusUpdateLoop, as an owner of cache_mutex_.
StatusThread == MaxCallers + 1

\* What GetCriteriaForContext may give GetNextDLSText, with the scoring
\* function GetNextDLSText sets.
StatusCriteria ==
    { [c EXCEPT !.scoring_function = "default"] :
        c \in {DefaultCriteria, AllPriorities} }

\* UpdateSystemStatus: GetImageCount and GetStatistics read; GetNextImage and
\* GetNextDLSText are the calls the emitter makes too. With smart selection
\* and slides in the carousel GetNextImage locks cache_mutex_ twice (see
\* GetNextImageLocked): the status thread blocks holding it, or the
\* std::system_error leaves UpdateSystemStatus, or the call goes on.
UpdateSystemStatus ==
    /\ cache_mutex_ = 0
    /\ \/ /\ image_cache_ = <<>>
          /\ mot_ret' = [op |-> "GetNextImage", caller |-> StatusThread,
                         call |-> 1 - mot_ret.call, image |-> "nullptr",
                         ok |-> FALSE]
          /\ UNCHANGED <<image_cache_, cache_mutex_, current_index>>
          /\ \E c \in StatusCriteria : GetNextMessageBody(c)
       \/ /\ image_cache_ # <<>>
          /\ ~config_.enable_smart_selection
          /\ LET at == IF current_index >= Len(image_cache_) THEN 0
                       ELSE current_index
             IN /\ mot_ret' = [op |-> "GetNextImage", caller |-> StatusThread,
                               call |-> 1 - mot_ret.call,
                               image |-> image_cache_[at + 1].filename,
                               ok |-> TRUE]
                /\ current_index' = at + 1
          /\ UNCHANGED <<image_cache_, cache_mutex_>>
          /\ \E c \in StatusCriteria : GetNextMessageBody(c)
       \/ /\ image_cache_ # <<>>
          /\ config_.enable_smart_selection
          /\ \E index \in SelectBestImages :
                LET used == [image_cache_[index] EXCEPT
                               !.last_used = now, !.usage_count = @ + 1]
                    image == [used EXCEPT
                               !.freshness_score = CalculateFreshnessScore(used)]
                IN /\ image_cache_[index].usage_count < MaxUsage
                   /\ image_cache_' = [image_cache_ EXCEPT ![index] = image]
                   /\ mot_ret' = [op |-> "GetNextImage", caller |-> StatusThread,
                                  call |-> 1 - mot_ret.call,
                                  image |-> image.filename, ok |-> TRUE]
          /\ UNCHANGED <<cache_mutex_, current_index>>
          /\ \E c \in StatusCriteria : GetNextMessageBody(c)
       \/ /\ image_cache_ # <<>>
          /\ config_.enable_smart_selection
          /\ mot_ret' = [op |-> "GetNextImage", caller |-> StatusThread,
                         call |-> 1 - mot_ret.call, image |-> "system_error",
                         ok |-> FALSE]
          /\ UNCHANGED <<image_cache_, cache_mutex_, current_index, queue_vars>>
       \/ /\ image_cache_ # <<>>
          /\ config_.enable_smart_selection
          /\ cache_mutex_' = StatusThread
          /\ UNCHANGED <<image_cache_, current_index, mot_ret, queue_vars>>
    /\ UNCHANGED <<now, util_vars, sched_vars, api_vars, sync_vars, config_,
                   hash_index_, mot_pc, add_pc, add_image_data>>

\* Captions the status loop and the emitter find queued.
StatusInputs == { [DefaultMessage EXCEPT !.source_id = "a"] }

NextStatus ==
    \/ AddImage(ImageAt("hi.jpg"))
    \/ \E m \in StatusInputs : AddMessage(m)
    \/ UpdateSystemStatus
    \/ AdvanceTime

InitStatus ==
    /\ Constructed
    /\ config_ \in {c \in CarouselConfigs : c.enable_duplicate_detection}
    /\ ValidatorConstructed

SpecStatus == InitStatus /\ [][NextStatus]_vars

\* ------------------------------------- ContentCoordinator: emergency broadcast
\* IsEmergencyMode()
IsEmergencyMode == emergency_mode_

\* TriggerEmergencyBroadcast(message, duration): scheduler_->TriggerEmergency
\* with the item it builds, then api_service_->TriggerEmergencyMode(message).
TriggerEmergencyBroadcast(message, duration) ==
    /\ Len(items) < MaxItems
    /\ items' = Append(items, [EmergencyItem(duration) EXCEPT
                                 !.text_content = message])
    /\ emergency_override_' = TRUE
    /\ emergency_content_' = Len(items) + 1
    /\ emergency_start_' = now
    /\ emergency_duration_' = duration
    /\ sched_ret' = [op |-> "TriggerEmergency", item |-> NoMsg]
    /\ emergency_mode_' = TRUE
    /\ emergency_message_' = message
    /\ emergency_start_time_' = now
    /\ AddMessageBody(ProcessorMessage(message, EMERGENCY, "EMERGENCY_SYSTEM"))
    /\ UNCHANGED <<now, util_vars, sync_vars, mot_vars, scheduled_content_,
                   current_mot_content_, current_dls_content_,
                   scheduler_running_, loop_pc, wake_at>>

\* ClearEmergencyBroadcast(): scheduler_->ClearEmergency, then
\* api_service_->ClearEmergencyMode.
ClearEmergencyBroadcast ==
    /\ emergency_override_' = FALSE
    /\ emergency_content_' = NoMsg
    /\ sched_ret' = [op |-> "ClearEmergency", item |-> NoMsg]
    /\ emergency_mode_' = FALSE
    /\ emergency_message_' = ""
    /\ ret' = [op |-> "ClearEmergencyMode", msg |-> NoMsg]
    /\ UNCHANGED <<now, util_vars, sync_vars, mot_vars, msgs, priority_queue_,
                   message_index_, content_hashes_, total_messages_,
                   expired_messages_, seen_at, items, scheduled_content_,
                   current_mot_content_, current_dls_content_, emergency_start_,
                   emergency_duration_, scheduler_running_, loop_pc, wake_at,
                   emergency_start_time_>>

NextBroadcast ==
    \/ Start
    \/ SchedulingLoop
    \/ \E item \in ScheduleInputs : AddContent(item)
    \/ \E message \in Texts, d \in 1..MaxDuration :
          TriggerEmergencyBroadcast(message, d)
    \/ ClearEmergencyBroadcast
    \/ AdvanceTime

SpecBroadcast == Init /\ [][NextBroadcast]_vars

\* File paths handed to AddImage: under the allowed root, leaving it by "..",
\* outside it, and one where there is no file.
IngestPaths ==
    { <<"/", "r", "/", "a">>, <<"/", "r", "/", ".", ".", "/", "e", "/", "a">>,
      <<"/", "e", "/", "a">>, <<"/", "r", "/", "b">> }

\* What image.read(filepath) opens: the file the operating system resolves
\* the path to.
ReadFile(filepath) ==
    CASE filepath = <<"/", "r", "/", "a">> -> ImageAt("hi.jpg")
      [] filepath \in {<<"/", "r", "/", ".", ".", "/", "e", "/", "a">>,
                       <<"/", "e", "/", "a">>} -> ImageAt("mid.jpg")
      [] OTHER -> ImageAt("")

\* AddImage(filepath)
AddImageFile(filepath) == AddImage(ReadFile(filepath))

NextPathIngest ==
    \/ \E filepath \in IngestPaths : AddImageFile(filepath)
    \/ AdvanceTime

SpecPathIngest == InitCarousel /\ [][NextPathIngest]_vars

\* Callers of the path validator.
NextPaths ==
    \/ \E path \in PathInputs : CallValidatePath(path)
    \/ AdvanceTime

SpecPaths == InitValidator /\ [][NextPaths]_vars

\* Ingests of files of every size.
NextBudget ==
    \/ \E img \in LargeImages \cup IngestImages : AddImage(img)
    \/ AdvanceTime

SpecBudget == InitCarousel /\ [][NextBudget]_vars

\* Ingests into a carousel whose slides are being shown.
EvictImages ==
    {img \in Images \cup LargeImages : img.filename \in {"hi.jpg", "mid.jpg", "fit.jpg"}}

NextEvict ==
    \/ \E img \in EvictImages : AddImage(img)
    \/ GetNextImageLock(1)
    \/ GetNextImageLocked(1)
    \/ AdvanceTime

SpecEvict == InitCarousel /\ [][NextEvict]_vars

\* Threads ingesting side by side.
NextIngest ==
    \/ \E t \in Callers : \E img \in IngestImages : AddImageCheck(t, img)
    \/ \E t \in Callers : AddImageInsert(t)
    \/ AdvanceTime

SpecIngest == InitCarousel /\ [][NextIngest]_vars

\* Scheduled entries of which one slide carries a "quality" that is no number.
IsolateInputs ==
    { [DefaultItem EXCEPT !.type = "MOT_SLIDESHOW", !.start_time = StartTime,
                          !.end_time = EndTime, !.quality = QualityNotANumber],
      [DefaultItem EXCEPT !.type = "MOT_SLIDESHOW", !.start_time = StartTime,
                          !.end_time = EndTime, !.quality = 800],
      [DefaultItem EXCEPT !.type = "COMBINED", !.start_time = StartTime,
                          !.end_time = EndTime],
      [DefaultItem EXCEPT !.type = "DLS_MESSAGE", !.start_time = StartTime,
                          !.end_time = EndTime] }

NextIsolate ==
    \/ Start
    \/ SchedulingLoop
    \/ \E item \in IsolateInputs : AddContent(item)
    \/ \E i \in 1..MaxItems : RemoveContent(i)
    \/ AdvanceTime

SpecIsolate == Init /\ [][NextIsolate]_vars

\* Scheduled captions with and without a limit on their repeats.
RepeatLimitInputs ==
    { [DefaultItem EXCEPT !.type = "DLS_MESSAGE", !.start_time = StartTime,
                          !.end_time = EndTime, !.max_repeats = n,
                          !.priority = p] :
        n \in {0, 1}, p \in {HIGH, NORMAL} }

NextRepeatLimit ==
    \/ Start
    \/ SchedulingLoop
    \/ \E item \in RepeatLimitInputs : AddContent(item)
    \/ \E i \in 1..MaxItems : RemoveContent(i)
    \/ AdvanceTime

SpecRepeatLimit == Init /\ [][NextRepeatLimit]_vars

NextSched ==
    \/ Start
    \/ SchedulingLoop
    \/ \E item \in ScheduleInputs : AddContent(item)
    \/ \E d \in 1..MaxDuration : TriggerEmergency(EmergencyItem(d), d)
    \/ ClearEmergency
    \/ GetCurrentMOTContent
    \/ GetCurrentDLSContent
    \/ AdvanceTime

SpecSched == Init /\ [][NextSched]_vars

\* scheduler_thread_ keeps running its loop once started, and time passes.
SpecSchedLive ==
    /\ Init
    /\ [][NextSched]_vars
    /\ WF_vars(SchedulingLoop)
    /\ WF_vars(AdvanceTime)

\* ------------------------------------------------------- properties: queue

\* C3: GetNextMessage never returns a caption whose expires_at is earlier than
\* now, whatever the criteria (max_age may exceed the caption's age).
NeverReturnsExpired ==
    (ret.op = "GetNextMessage" /\ ret.msg # NoMsg)
        => ~(msgs[ret.msg].expires_at < now)

\* The text was accepted less than the dedup window ago.
SeenWithinWindow(text) ==
    LET h == GenerateContentHash(text)
    IN h \in DOMAIN seen_at /\ (now - seen_at[h]) < DedupWindow

\* C4: an AddMessage whose text was accepted less than the dedup window ago is
\* rejected and leaves the queue unchanged, whatever created_at either caption
\* carries; an AddMessage of a text not seen within the window is accepted.
DedupWindowFromAcceptance ==
    [][\A m \in ExpiryInputs : AddMessage(m) =>
          IF SeenWithinWindow(m.text)
          THEN /\ ret'.msg = NoMsg
               /\ UNCHANGED <<msgs, priority_queue_, message_index_, content_hashes_>>
          ELSE ret'.msg # NoMsg]_vars

\* C5: no two captions in the queue carry the same content_hash.
QueueHashesUnique ==
    \A i, j \in priority_queue_ :
        i # j => msgs[i].content_hash # msgs[j].content_hash

\* C6: GetNextMessage returns, among the queued captions that meet all the
\* criteria, one whose default composite score is maximal, with and without a
\* scoring_function in the criteria.
ReturnsMaximalCompositeScore ==
    [][\A c \in ScoreCriteria : GetNextMessage(c) =>
          LET cand == {i \in priority_queue_ : MeetsCriteria(msgs[i], c)}
          IN cand # {} =>
               /\ ret'.msg \in cand
               /\ \A j \in cand :
                     DefaultScoringFunction(AfterScan(msgs[j], c))
                       <= DefaultScoringFunction(AfterScan(msgs[ret'.msg], c))]_vars

\* Two captions that agree in all that selection looks at, priority aside.
IdenticalExceptPriority(a, b) ==
    /\ a.importance = b.importance
    /\ a.scalings = b.scalings
    /\ a.created_at = b.created_at
    /\ a.expires_at = b.expires_at
    /\ a.last_sent = b.last_sent
    /\ a.send_count = b.send_count
    /\ a.max_sends = b.max_sends
    /\ a.source = b.source
    /\ a.is_thai_content = b.is_thai_content

Throttled(m, c) == m.send_count > 0 /\ (now - m.last_sent) < c.min_repeat_interval

\* C9: a caption already sent is never returned while now - last_sent is below
\* min_repeat_interval; when every queued caption is throttled the result is
\* null; once the interval has elapsed a caption that passes the other checks
\* is selectable again.
RepeatThrottle ==
    [][\A c \in SelectCriteria : GetNextMessage(c) =>
          /\ (ret'.msg # NoMsg => ~Throttled(msgs[ret'.msg], c))
          /\ ((\A i \in priority_queue_ : Throttled(msgs[i], c)) => ret'.msg = NoMsg)
          /\ ((\E i \in priority_queue_ :
                  /\ msgs[i].send_count > 0
                  /\ ~Throttled(msgs[i], c)
                  /\ MeetsCriteria(msgs[i], c)) => ret'.msg # NoMsg)]_vars

\* A caption has been returned again after its interval elapsed.
ReturnedAgainAfterInterval ==
    /\ ret.op = "GetNextMessage"
    /\ ret.msg # NoMsg
    /\ msgs[ret.msg].send_count >= 2
    /\ msgs[ret.msg].last_sent = now

\* A caption that has used up its max_sends.
AtSendLimit(m) == m.max_sends > 0 /\ m.send_count >= m.max_sends

SevenPointGate(m, c) ==
    /\ ~(m.expires_at < now)
    /\ (c.min_priority <= m.priority /\ m.priority <= c.max_priority)
    /\ (c.allowed_sources # {} => m.source \in c.allowed_sources)
    /\ (c.blocked_sources # {} => m.source \notin c.blocked_sources)
    /\ (m.max_sends > 0 => m.send_count < m.max_sends)
    /\ (m.send_count > 0 => (now - m.last_sent) >= c.min_repeat_interval)
    /\ Len(m.text) <= c.max_text_length
    /\ (~c.allow_repeats => m.send_count = 0)

\* C8: when some queued caption passes the seven-point gate (not expired,
\* priority in range, source allowed and not denied, under max_sends when that
\* is positive, repeat interval elapsed when already sent, text within the
\* maximum length, unsent when repeats are not allowed), GetNextMessage
\* returns a caption.
SelectComplete ==
    [][\A c \in CriteriaSet : GetNextMessage(c) =>
          ((\E i \in priority_queue_ : SevenPointGate(msgs[i], c))
             => ret'.msg # NoMsg)]_vars

\* --------------------------------------------------- properties: scheduler

\* An emergency has been triggered and neither cleared nor run out.
EmergencyInForce ==
    /\ emergency_override_
    /\ emergency_content_ # NoMsg
    /\ (now - emergency_start_) < emergency_duration_

EmergencyRunOut ==
    /\ emergency_override_
    /\ emergency_content_ # NoMsg
    /\ (now - emergency_start_) >= emergency_duration_

\* C1: while the scheduler runs and an emergency is in force, every
\* GetCurrentDLSContent and GetCurrentMOTContent returns the emergency item and
\* IsEmergencyActive() is true, also before the first tick after the trigger.
EmergencyMonotonic ==
    ( /\ scheduler_running_
      /\ sched_ret.op \in {"GetCurrentDLSContent", "GetCurrentMOTContent"}
      /\ EmergencyInForce )
    => (sched_ret.item = emergency_content_ /\ IsEmergencyActive)

\* What a tick leaves behind, and what the reads return.
RegularPublished ==
    /\ ~IsEmergencyActive
    /\ emergency_content_ = NoMsg
    /\ current_dls_content_ \in SelectNextDLSContent
    /\ current_mot_content_ \in SelectNextMOTContent
    /\ \A i \in {current_dls_content_, current_mot_content_} \ {NoMsg} :
          ~items[i].is_emergency

AfterTick ==
    sched_ret.op = "SchedulingLoop"
        => (~EmergencyRunOut /\ (~EmergencyInForce => RegularPublished))

ReadsReturnPublished ==
    /\ sched_ret.op = "GetCurrentDLSContent" => sched_ret.item = current_dls_content_
    /\ sched_ret.op = "GetCurrentMOTContent" => sched_ret.item = current_mot_content_

NextTickBeyondHorizon == wake_at > EndTime

\* C2: once now - emergency_start_ >= emergency_duration_, the running scheduler
\* leaves the emergency: a tick never keeps a run-out override, the tick that
\* ends it publishes what the regular selection yields (never the emergency
\* item), IsEmergencyActive() is then false, reads return what was published,
\* and a run-out override does not last (unless the loop's next tick lies
\* beyond the end of the clock).
EmergencyExpires ==
    /\ [](AfterTick /\ ReadsReturnPublished)
    /\ ((scheduler_running_ /\ EmergencyRunOut)
           ~> (~EmergencyRunOut \/ NextTickBeyondHorizon))

\* The tick after an emergency ran out has published a regular caption again.
RegularCaptionBack ==
    /\ sched_ret.op = "SchedulingLoop"
    /\ ~IsEmergencyActive
    /\ emergency_start_ > 0
    /\ (now - emergency_start_) >= emergency_duration_
    /\ current_dls_content_ # NoMsg
    /\ items[current_dls_content_].type = "DLS_MESSAGE"
    /\ items[current_dls_content_].display_count > 0
    /\ \E e \in DOMAIN items : items[e].is_emergency /\ items[e].display_count > 0

\* C11: with allow_repeats = false GetNextMessage returns only captions that
\* were never returned before (so each at most once), and returns null when
\* every queued caption has already been sent.
NoRepeatsWhenDisallowed ==
    [][\A c \in RepeatCriteria : (~c.allow_repeats /\ GetNextMessage(c)) =>
          /\ (ret'.msg # NoMsg =>
                 /\ msgs[ret'.msg].send_count = 0
                 /\ msgs'[ret'.msg].send_count = 1)
          /\ ((\A i \in priority_queue_ : msgs[i].send_count > 0)
                 => ret'.msg = NoMsg)]_vars

\* Null was returned although a sent caption passes every check but the one
\* on allow_repeats.
SentCaptionNotRepeated ==
    /\ ret.op = "GetNextMessage"
    /\ ret.msg = NoMsg
    /\ priority_queue_ # {}
    /\ \A i \in priority_queue_ : msgs[i].send_count = 1
    /\ \E i \in priority_queue_ :
          MeetsCriteria(msgs[i], AllPriorities)

\* C12: a GetNextMessage call changes only last_sent and send_count (+1) of the
\* caption it returns; every other field of every caption (importance_score
\* too, also under prefer_thai_content) and the set of queued captions that
\* are not expired stay as they were; a call that returns null changes no
\* caption.
SelectFrame ==
    [][\A c \in ScoreCriteria : GetNextMessage(c) =>
          /\ DOMAIN msgs' = DOMAIN msgs
          /\ \A i \in DOMAIN msgs :
                IF i = ret'.msg
                THEN msgs'[i] = [msgs[i] EXCEPT !.last_sent = now,
                                                !.send_count = @ + 1]
                ELSE msgs'[i] = msgs[i]
          /\ \A i \in DOMAIN msgs :
                ~(msgs[i].expires_at < now)
                    => (i \in priority_queue_' <=> i \in priority_queue_)]_vars

\* Two captions with the same composite score: same priority, importance,
\* send_count and age in whole hours.
SameCompositeScore(a, b) ==
    /\ a.priority = b.priority
    /\ ImportanceScore(a) = ImportanceScore(b)
    /\ a.send_count = b.send_count
    /\ (now - a.created_at) \div TicksPerHour = (now - b.created_at) \div TicksPerHour
    /\ DefaultScoringFunction(a) = DefaultScoringFunction(b)

\* C13: between two eligible captions with identical composite score
\* GetNextMessage returns the one with the earlier created_at: the later one
\* is never returned.
TieBreakEarlierCreated ==
    [][\A c \in ScoreCriteria : GetNextMessage(c) =>
          \A i, j \in priority_queue_ :
             ( /\ MeetsCriteria(msgs[i], c)
               /\ MeetsCriteria(msgs[j], c)
               /\ ~(msgs[i].expires_at < now)
               /\ ~(msgs[j].expires_at < now)
               /\ SameCompositeScore(msgs[i], msgs[j])
               /\ msgs[i].created_at < msgs[j].created_at )
             => ret'.msg # j]_vars

\* The queue holds an Emergency-priority caption of that text with unlimited
\* sends.
EmergencyCaptionOf(q, ms, text) ==
    {i \in q : /\ ms[i].text = text
               /\ ms[i].priority = EMERGENCY
               /\ ms[i].max_sends = 0}

\* C14: after every TriggerEmergencyMode(message) an Emergency-priority caption
\* with that text and unlimited sends is in the queue, and while the emergency
\* lasts a select under the emergency criteria returns a caption whenever
\* that one is unsent or its repeat interval has elapsed, however often it
\* was sent.
EmergencyCaptionQueued ==
    [][/\ \A t \in Texts : TriggerEmergencyMode(t) =>
            EmergencyCaptionOf(priority_queue_', msgs', t) # {}
       /\ (GetNextMessage(EmergencyCriteria) /\ emergency_mode_) =>
            ((\E i \in EmergencyCaptionOf(priority_queue_, msgs, emergency_message_) :
                 /\ ~(msgs[i].expires_at < now)
                 /\ ~Throttled(msgs[i], EmergencyCriteria))
               => ret'.msg # NoMsg)]_vars

\* C15: once a caption or a slide is published as current content it never
\* goes back to none: a tick with no eligible entry for the slot leaves the
\* published value in place.
HoldPrevious ==
    [][/\ (current_dls_content_ # NoMsg => current_dls_content_' # NoMsg)
       /\ (current_mot_content_ # NoMsg => current_mot_content_' # NoMsg)]_vars

\* C16: a reader that fetches the MOT item and then the DLS item, as
\* SynchronizeContent does, holds after the call a pair that one scheduling
\* tick published together (or the pair there was before the first tick).
SnapshotAtomic ==
    (sync_pc = "idle" /\ last_sync_ # 0)
        => <<mot_content, dls_content>> \in published_pairs

\* C17: what GetNextMessage or GetCurrentDLSContent handed out is a copy: the
\* caption or the item the caller holds stays as it was, whatever the next
\* select, tick or ProcessThaiContent does.
SnapshotIsValueCopy ==
    [][ /\ (ret.op = "GetNextMessage" /\ ret.msg # NoMsg)
            => msgs'[ret.msg] = msgs[ret.msg]
        /\ (sched_ret.op = "GetCurrentDLSContent" /\ sched_ret.item # NoMsg)
            => items'[sched_ret.item] = items[sched_ret.item] ]_vars

\* C18: the sweep at the start of GetNextMessage leaves no caption with
\* now > expires_at in the priority queue, the index or the dedup map, and
\* GetQueueSize() (priority_queue_.size()) drops by the number that expired.
ExpirySweep ==
    [][\A c \in ExpiryCriteria :
         GetNextMessage(c) =>
           LET expired == {i \in priority_queue_ : now > msgs[i].expires_at}
           IN /\ \A i \in priority_queue_' : ~(now > msgs'[i].expires_at)
              /\ \A k \in DOMAIN message_index_' :
                     ~(now > msgs'[message_index_'[k]].expires_at)
              /\ \A h \in DOMAIN content_hashes_' :
                     \A i \in expired : msgs[i].content_hash # h
              /\ Cardinality(priority_queue_') =
                     Cardinality(priority_queue_) - Cardinality(expired)]_vars

\* C19: GetNextImage on a non-empty carousel with smart selection enabled
\* finishes and yields a slide; the caller never blocks on the carousel mutex
\* it holds, whether it is the only caller or one of several.
GetNextImageReturns ==
    [][\A t \in Callers :
         (GetNextImageLocked(t) /\ image_cache_ # <<>> /\ config_.enable_smart_selection)
            => /\ mot_pc'[t] = "idle"
               /\ mot_ret'.op = "GetNextImage"
               /\ mot_ret'.caller = t
               /\ mot_ret'.ok]_vars

\* C20: with duplicate detection enabled, the second of two successive ingests
\* of the same image is rejected and leaves the slide count as it was, the
\* first having been accepted.
SecondIngestRejected ==
    [][\A img \in Images :
         ( /\ config_.enable_duplicate_detection
           /\ mot_ret.op = "AddImage" /\ mot_ret.image = img.filename /\ mot_ret.ok
           /\ AddImage(img) )
            => /\ ~mot_ret'.ok
               /\ GetImageCount' = GetImageCount]_vars

\* C21: with duplicate detection enabled no two slides of the carousel have
\* the same content hash, whatever threads ingest side by side.
CarouselHashesUnique ==
    config_.enable_duplicate_detection =>
        \A i, j \in DOMAIN image_cache_ :
            image_cache_[i].hash = image_cache_[j].hash => i = j

\* C22: every slide of the carousel has 0 < byte length <= the carousel byte
\* budget; an ingest whose transcoded output is over the budget adds nothing.
SlidesWithinBudget ==
    \A i \in DOMAIN image_cache_ :
        /\ 0 < image_cache_[i].file_size
        /\ image_cache_[i].file_size <= CarouselMaxBytes

\* The eviction rank 0.6 * freshness + 0.4 * ((sharpness + contrast) / 2),
\* times 10000.
EvictionRank(image) ==
    6 * image.freshness_score + 2 * (image.sharpness + image.contrast)

\* C23: with duplicate detection enabled, after AddImage returns the carousel holds at most max_images slides;
\* when the insertion went over capacity, exactly the excess slides of lowest
\* eviction rank are gone and the hash index maps the hash of every slide left
\* to the position of that slide.
CapacityKept ==
    [][\A img \in EvictImages :
         (config_.enable_duplicate_detection /\ AddImage(img)) =>
           LET pushed == Append(image_cache_, ImageData(img))
               excess == Len(pushed) - config_.max_images
           IN /\ GetImageCount' <= config_.max_images
              /\ (mot_ret'.ok /\ excess > 0) =>
                   /\ \E gone \in SUBSET DOMAIN pushed :
                        /\ Cardinality(gone) = excess
                        /\ image_cache_' = KeepImages(pushed, gone, 1)
                        /\ \A g \in gone : \A k \in DOMAIN pushed \ gone :
                              EvictionRank(pushed[g]) <= EvictionRank(pushed[k])
                   /\ \A i \in DOMAIN image_cache_' :
                        /\ image_cache_'[i].hash \in DOMAIN hash_index_'
                        /\ hash_index_'[image_cache_'[i].hash] = i]_vars

\* The path has none of the traversal patterns and no NUL byte.
PathClean(path) ==
    /\ ~Find(path, <<".", ".">>) /\ ~Find(path, <<"~">>) /\ ~Find(path, <<"/", "/">>)
    /\ ~Find(path, <<"%", "2", "e", "%", "2", "e">>)
    /\ ~Find(path, <<"%", "2", "f">>) /\ ~Find(path, <<"%", "5", "c">>)
    /\ ~Find(path, <<"NUL">>)

\* The path lies under an allowed root, the match ending on a directory boundary.
UnderAllowedRoot(path) ==
    \E root \in allowed_directories_ :
        /\ SubSeq(path, 1, Len(root)) = root
        /\ (Len(path) = Len(root) \/ (Len(path) > Len(root) /\ path[Len(root) + 1] = "/"))

\* C24: with allowed roots configured, ValidatePath reports a path valid and
\* safe only if it is clean and under an allowed root; every other path comes
\* back with is_valid = false, is_safe = false and a security issue listed.
ValidatePathSound ==
    (path_ret.op = "ValidatePath" /\ allowed_directories_ # {}) =>
        LET v == path_ret.validation
            ok == PathClean(path_ret.path) /\ UnderAllowedRoot(path_ret.path)
        IN /\ (v.is_valid /\ v.is_safe) => ok
           /\ ~ok => (~v.is_valid /\ ~v.is_safe /\ v.security_issues # <<>>)

\* C25: AddImage checks the path first; for a path that fails the check the
\* file is not read or decoded, so the call is refused and the carousel stays
\* as it was.
PathCheckedBeforeRead ==
    [][\A filepath \in IngestPaths :
         (~ValidatePath(filepath).is_safe /\ AddImageFile(filepath))
            => (~mot_ret'.ok /\ image_cache_' = image_cache_)]_vars

\* C26: an error while one scheduled entry is handled stays inside the tick:
\* the loop sleeps its period as after every tick, and the DLS slot is
\* selected from the eligible entries in that same tick.
TickErrorIsolated ==
    [][(SchedulingLoop /\ ~emergency_override_)
          => (wake_at' = now + 1
              /\ current_dls_content_' \in SelectNextDLSContent)]_vars

\* The byte the mapping table of the DAB profile gives a code point.
ProfileByte(c) ==
    CASE c \in \H0E01..\H0E2E -> c - \H0E00
      [] c \in \H0E30..\H0E4F -> c - \H0E00
      [] c \in \H0E50..\H0E5B -> c - \H0E00
      [] c < \H80 -> c
      [] OTHER -> \H3F

\* C27: ConvertUTF8ToDAB gives the byte 0x0E and then exactly one byte for each
\* code point of the text: the Thai ranges shifted down, ASCII itself, 0x3F
\* for every other code point.
EncodingByCodePoint ==
    (thai_ret.op = "ConvertUTF8ToDAB" /\ Len(thai_ret.chain) = 2)
        => thai_ret.chain[2] =
              << \H0E >> \o [i \in 1..Len(thai_ret.chain[1]) |->
                               ProfileByte(thai_ret.chain[1][i])]

\* A text of Thai and ASCII code points none of which maps to 0x3F.
ThaiAndASCII(t) ==
    \A i \in 1..Len(t) :
        /\ t[i] < \H80 \/ t[i] \in \H0E00..\H0E7F
        /\ ConvertUTF8ToDAB(<<t[i]>>) # << \H0E, \H3F >>

\* C28: encoding what the decoder gives for an encoder output x gives x again,
\* for x encoded from Thai and ASCII text that has nothing mapping to 0x3F.
EncodeDecodeRoundTrip ==
    (thai_ret.op = "ConvertUTF8ToDAB" /\ Len(thai_ret.chain) = 4
        /\ ThaiAndASCII(thai_ret.chain[1]))
        => thai_ret.chain[4] = thai_ret.chain[2]

\* C28 witness: a text with a Thai letter and a Latin letter was encoded,
\* decoded and encoded again.
MixedTextEncodedTwice ==
    /\ thai_ret.op = "ConvertUTF8ToDAB"
    /\ Len(thai_ret.chain) = 4
    /\ thai_ret.chain[1] = << \H0E01, \H61 >>

\* C29: decoding the encoding of a text of Thai and ASCII code points, none
\* mapping to 0x3F, gives the text back.
DecodeInvertsEncode ==
    (thai_ret.op = "ConvertDABToUTF8" /\ Len(thai_ret.chain) = 3
        /\ ThaiAndASCII(thai_ret.chain[1]))
        => thai_ret.chain[3] = thai_ret.chain[1]

\* The code points of the captions submitted.
CodePointsOf(text) ==
    CASE text = ThaiCaption -> << \H0E01 >>
      [] text = "a" -> << \H61 >>
      [] text = "bb" -> << \H62, \H62 >>

\* The length of a caption in the DAB Thai encoding, without the charset tag.
EncodedLength(text) == Len(ConvertUTF8ToDAB(CodePointsOf(text))) - 1

\* The checks of GetNextMessage with the text length taken in the encoding.
MeetsCriteriaEncoded(m, c) ==
    /\ InPriorityRange(m, c)
    /\ WithinMaxAge(m, c)
    /\ SourceAllowed(m, c)
    /\ RepeatAllowed(m, c)
    /\ UnderRepeatCount(m, c)
    /\ RepeatIntervalElapsed(m, c)
    /\ EncodedLength(m.text) <= c.max_text_length
    /\ UnderMaxSends(m)

\* C30: the text-length check counts the caption's length in the DAB Thai
\* encoding: when a queued caption passes every check of GetNextMessage with
\* its encoded length within max_text_length, GetNextMessage returns a caption
\* even if the UTF-8 length is larger.
TextGateOnEncodedLength ==
    [][\A c \in ThaiGateCriteria : GetNextMessage(c) =>
          ((\E i \in priority_queue_ : MeetsCriteriaEncoded(msgs[i], c))
             => ret'.msg # NoMsg)]_vars

\* C31: SmartTruncate returns, for every text and every target length, a text
\* no longer than the target, reading only positions inside its input; a text
\* already within the target comes back unchanged.
TruncateWithinTarget ==
    call_ret.op = "SmartTruncate"
        => /\ ~call_ret.result.crashed
           /\ Len(call_ret.result.text) <= call_ret.max_length
           /\ (Len(call_ret.text) <= call_ret.max_length
                  => call_ret.result.text = call_ret.text)

\* A caption that has been sent max_sends times.
Exhausted(m) == m.max_sends > 0 /\ m.send_count >= m.max_sends

\* C32: a caption whose send_count has reached its positive max_sends leaves
\* the caption queue: a GetNextMessage call that finds it exhausted does not
\* leave it among the captions GetQueueSize counts.
ExhaustedCaptionRemoved ==
    [][\A c \in CriteriaSet : GetNextMessage(c) =>
          \A i \in priority_queue_ :
              Exhausted(msgs[i]) => i \notin priority_queue_']_vars

\* C33: what a tick publishes is eligible at that tick, its repeats under
\* max_repeats when that is positive; so a scheduled caption with
\* max_repeats = N > 0 is published in at most N ticks (display_count counts
\* the ticks that published it).
PublishedAtMostMaxRepeats ==
    \A i \in DOMAIN items :
        (items[i].type = "DLS_MESSAGE" /\ items[i].max_repeats > 0)
            => items[i].display_count <= items[i].max_repeats

\* The qualities of the ladder.
QualityLadder == {95, 85, 75, 65, 55, 50}

\* C34: OptimizeForDAB returns the encoding at the highest quality of 95, 85,
\* 75, 65, 55, 50 whose size is within max_size, and fails only when the
\* encoding at quality 50 is larger than max_size too.
LadderDownToFifty ==
    call_ret.op = "OptimizeForDAB"
        => LET fits == {q \in QualityLadder :
                          EncodedSize(call_ret.detail, q) <= call_ret.max_size}
           IN IF fits = {} THEN ~call_ret.result.ok
              ELSE /\ call_ret.result.ok
                   /\ \A q \in fits : q <= call_ret.result.quality

\* C35: for every text and every max_length the output of FormatTextForDLS
\* has at most max_length bytes, the appended "..." included.
FormattedWithinMaxLength ==
    call_ret.op = "FormatTextForDLS"
        => Len(call_ret.output_text) <= call_ret.max_length

\* C36: IsHolyDay reports a date as a holy day only when the calendar table
\* lists a holy day on that day of that same year.
NoFalseHolyDay ==
    (call_ret.op = "IsHolyDay" /\ call_ret.result)
        => \E holiday \in holiday_calendar_ :
              /\ holiday.is_holy_day
              /\ holiday.year_ce = call_ret.date.year
              /\ holiday.month = call_ret.date.month
              /\ holiday.day = call_ret.date.day

\* C37: FormatNumber(n, THAI_WORDS) is defined for every integer n: it never
\* reads outside the table of digit words, gives words of the table for
\* 0 <= n <= 99, and the Thai-digit rendering for every other n, negative
\* numbers included.
ThaiWordsDefined ==
    call_ret.op = "FormatNumber"
        => /\ ~call_ret.result.crashed
           /\ IF call_ret.number \in 0..99
              THEN /\ call_ret.result.text # <<>>
                   /\ \A i \in 1..Len(call_ret.result.text) :
                         call_ret.result.text[i] \in
                            {thai_digits[k] : k \in 1..10} \cup {"sip"}
              ELSE call_ret.result.text = FormatThaiDigits(call_ret.number)

\* C38: for every interleaving of Start and Stop calls from several threads
\* at most one background loop thread exists and no new thread is assigned
\* over a thread object that is still joinable.
OneBackgroundLoop ==
    /\ background_processor_.loops <= 1
    /\ ~background_processor_.terminate_called

\* C39: a status update is read-only: UpdateSystemStatus changes no slide's
\* usage_count, last_used or freshness and not the slide that is handed out
\* next.
StatusReadOnly ==
    [][UpdateSystemStatus =>
          (image_cache_' = image_cache_ /\ current_index' = current_index)]_vars

\* C40: once the scheduler has processed a tick, IsEmergencyActive() of the
\* scheduler and IsEmergencyMode() of the API service have the same value;
\* after the emergency duration has run out both are false.
EmergencyFlagsAgree ==
    sched_ret.op = "SchedulingLoop" => (IsEmergencyActive <=> IsEmergencyMode)

====
